---- MODULE Spec2Model ----
(***************************************************************************)
(* HyperPay gateway integration (zeitlabs-hyperpay).                       *)
(*                                                                         *)
(* The module models HyperPayWebhookView.post (src/hyperpay/views.py) as a *)
(* set of concurrent deliveries working on the shared Cart / Transaction / *)
(* Invoice / AuditLog tables.  Every database access of the handler is one *)
(* step of a delivery; the db_transaction.atomic() block is one step.      *)
(* Strings that the code inspects character by character (result codes)    *)
(* are sequences of one-character strings.                                 *)
(***************************************************************************)
EXTENDS Integers, Sequences, FiniteSets, TLC

\* ------------------------------------------------------------------ bounds
NumDeliveries == 2
NumCarts == 1

Deliveries == 1..NumDeliveries
Carts == 1..NumCarts

\* Python's None for a string, for a sequence and for a model instance
None == "None"
NoneSeq == <<"None">>
NoCart == 0

\* ------------------------------------------------------- Cart.Status values
PROCESSING == "processing"
PAYMENT_PENDING == "payment_pending"
PAID == "paid"
CANCELLED == "cancelled"
PENDING_CART == "pending"

CartStatuses == {PROCESSING, PAYMENT_PENDING, PAID, CANCELLED, PENDING_CART}

\* statuses a cart can have before any notification about it is handled
InitialCartStatuses == {PROCESSING, PAYMENT_PENDING, CANCELLED, PENDING_CART}

\* --------------------------------------------------------- result codes
Code_Success == <<"0","0","0",".","1","0","0",".","1","1","0">>
Code_Pending == <<"0","0","0",".","2","0","0",".","0","0","0">>
Code_Declined == <<"8","0","0",".","1","0","0",".","1","0","0">>
Code_ManualReview == <<"0","0","0",".","4","0","0",".","0","0","0">>
Code_Empty == <<>>

StartsWith(s, p) == Len(s) >= Len(p) /\ SubSeq(s, 1, Len(p)) = p

\* the success pattern taking every code of the 000 family
SUCCESS_CODES_REGEX_Any000(s) ==
    StartsWith(s, <<"0","0","0",".">>)

\* ^(000\.000\.|000\.100\.1|000\.[36])
SUCCESS_CODES_REGEX(s) ==
    \/ StartsWith(s, <<"0","0","0",".","0","0","0",".">>)
    \/ StartsWith(s, <<"0","0","0",".","1","0","0",".","1">>)
    \/ StartsWith(s, <<"0","0","0",".","3">>)
    \/ StartsWith(s, <<"0","0","0",".","6">>)

\* ^(000\.400\.0[^3]|000\.400\.[0-1]{2}0)
SUCCESS_MANUAL_REVIEW_CODES_REGEX(s) ==
    \/ /\ StartsWith(s, <<"0","0","0",".","4","0","0",".","0">>)
       /\ Len(s) >= 10
       /\ s[10] # "3"
    \/ /\ StartsWith(s, <<"0","0","0",".","4","0","0",".">>)
       /\ Len(s) >= 11
       /\ s[9] \in {"0", "1"}
       /\ s[10] \in {"0", "1"}
       /\ s[11] = "0"

\* the pending pattern asking for the dot after the second segment
PENDING_CHANGEABLE_SOON_CODES_REGEX_TrailingDot(s) ==
    StartsWith(s, <<"0","0","0",".","2","0","0",".">>)

\* ^(000\.200)
PENDING_CHANGEABLE_SOON_CODES_REGEX(s) ==
    StartsWith(s, <<"0","0","0",".","2","0","0">>)

\* ^(800\.400\.5|100\.400\.500)
PENDING_NOT_CHANGEABLE_SOON_CODES_REGEX(s) ==
    \/ StartsWith(s, <<"8","0","0",".","4","0","0",".","5">>)
    \/ StartsWith(s, <<"1","0","0",".","4","0","0",".","5","0","0">>)

\* PaymentStatus, or the exception _verify_status raises
SUCCESS == "SUCCESS"
PENDING == "PENDING"
FAILURE == "FAILURE"
HyperPayBadGatewayResponse == "HyperPayBadGatewayResponse"

\* the classifier with its last branch answering SUCCESS
_verify_status_DefaultAllow(result_code, payment_id) ==
    IF result_code = NoneSeq \/ result_code = <<>> \/ payment_id = None \/ payment_id = ""
    THEN HyperPayBadGatewayResponse
    ELSE IF PENDING_CHANGEABLE_SOON_CODES_REGEX(result_code) THEN PENDING
    ELSE IF PENDING_NOT_CHANGEABLE_SOON_CODES_REGEX(result_code) THEN FAILURE
    ELSE IF SUCCESS_CODES_REGEX(result_code) THEN SUCCESS
    ELSE IF SUCCESS_MANUAL_REVIEW_CODES_REGEX(result_code) THEN FAILURE
    ELSE SUCCESS

\* the classifier looking at the result code only, not at the id
_verify_status_CodeOnly(result_code, payment_id) ==
    IF result_code = NoneSeq \/ result_code = <<>>
    THEN HyperPayBadGatewayResponse
    ELSE IF PENDING_CHANGEABLE_SOON_CODES_REGEX(result_code) THEN PENDING
    ELSE IF PENDING_NOT_CHANGEABLE_SOON_CODES_REGEX(result_code) THEN FAILURE
    ELSE IF SUCCESS_CODES_REGEX(result_code) THEN SUCCESS
    ELSE IF SUCCESS_MANUAL_REVIEW_CODES_REGEX(result_code) THEN FAILURE
    ELSE FAILURE

\* result_code / payment_id are None (key absent) or a string
_verify_status(result_code, payment_id) ==
    IF result_code = NoneSeq \/ result_code = <<>> \/ payment_id = None \/ payment_id = ""
    THEN HyperPayBadGatewayResponse
    ELSE IF PENDING_CHANGEABLE_SOON_CODES_REGEX(result_code) THEN PENDING
    ELSE IF PENDING_NOT_CHANGEABLE_SOON_CODES_REGEX(result_code) THEN FAILURE
    ELSE IF SUCCESS_CODES_REGEX(result_code) THEN SUCCESS
    ELSE IF SUCCESS_MANUAL_REVIEW_CODES_REGEX(result_code) THEN FAILURE
    ELSE FAILURE

\* ------------------------------------------------- ResponseValidator
MANDATORY_FIELDS ==
    <<"id", "paymentType", "paymentBrand", "amount", "currency",
      "merchantTransactionId", "result">>

required_card_fields == {"bin", "last4Digits", "holder", "expiryMonth", "expiryYear"}

\* settings.VALID_CURRENCY
valid_currency == "SAR"

\* Decimal() raising InvalidOperation
InvalidOperation == -1

\* Decimal() keeping the whole units of the amount only
Decimal_WholeUnits(amount) ==
    CASE amount = "1000.00" -> 100000
      [] amount = "1000" -> 100000
      [] amount = "1000.01" -> 100000
      [] amount = "999.99" -> 99900
      [] OTHER -> InvalidOperation

\* Decimal(amount) on the amount texts the model uses, in hundredths
Decimal(amount) ==
    CASE amount = "1000.00" -> 100000
      [] amount = "1000" -> 100000
      [] amount = "1000.01" -> 100001
      [] amount = "999.99" -> 99999
      [] OTHER -> InvalidOperation

\* a result.code that is not a str
NotAStr == <<"<int>">>

\* cart.total (hundredths) and cart.items.count() of the carts of the model
CartTotal == 100000
CartItemsCount == 1

OK == "ok"

RECURSIVE FirstMissing(_, _, _)
FirstMissing(fields, i, keys) ==
    IF i > Len(fields) THEN None
    ELSE IF fields[i] \notin keys THEN fields[i]
    ELSE FirstMissing(fields, i + 1, keys)

\* the validator looking at the currency before the amount
verify_success_response_with_cart_CurrencyFirst(response, total, items_count) ==
    IF FirstMissing(MANDATORY_FIELDS, 1, response.keys) # None
    THEN "Missing field in response"
    ELSE IF response.currency # valid_currency
    THEN "Invalid currency"
    ELSE IF Decimal(response.amount) = InvalidOperation
            \/ Decimal(response.amount) # total
    THEN "Error comparing cart total"
    ELSE IF response.code = NoneSeq \/ response.code = <<>> \/ response.code = NotAStr
    THEN "Missing or invalid result.code"
    ELSE IF response.card # {} /\ ~(required_card_fields \subseteq response.card)
    THEN "Missing card field"
    ELSE IF response.items # items_count
    THEN "Mismatch in number of cart items"
    ELSE OK

\* the value is OK or the kind of HyperPayException raised
verify_success_response_with_cart(response, total, items_count) ==
    IF FirstMissing(MANDATORY_FIELDS, 1, response.keys) # None
    THEN "Missing field in response"
    ELSE IF Decimal(response.amount) = InvalidOperation
            \/ Decimal(response.amount) # total
    THEN "Error comparing cart total"
    ELSE IF response.currency # valid_currency
    THEN "Invalid currency"
    ELSE IF response.code = NoneSeq \/ response.code = <<>> \/ response.code = NotAStr
    THEN "Missing or invalid result.code"
    ELSE IF response.card # {} /\ ~(required_card_fields \subseteq response.card)
    THEN "Missing card field"
    ELSE IF response.items # items_count
    THEN "Mismatch in number of cart items"
    ELSE OK

\* what the message of the HyperPayException names: the order total and
\* the amount received, for the amount error
NoNames == [total |-> <<>>, amount |-> None]

verify_success_response_with_cart_names(response, total, items_count) ==
    IF verify_success_response_with_cart(response, total, items_count)
           = "Error comparing cart total"
    THEN [total |-> <<total>>, amount |-> response.amount]
    ELSE NoNames

\* ------------------------------------------------------ webhook payloads
VendorId == "8ac7a4a1"

\* the keys of a notification as the gateway sends it, and the same with
\* the camel-case keys the validator asks for
SnakeKeys ==
    {"id", "payment_type", "payment_brand", "amount", "currency", "result", "card"}
CamelKeys == {"paymentType", "paymentBrand", "merchantTransactionId"}

\* merchant_transaction_id as its dash-separated segments
CartRef(c) == <<"ABCD", "1", ToString(c)>>
OrphanRef == <<"ABCD", "1", "9">>
UnknownRef == <<"ABCD", "1", "10000">>
NoDashRef == <<"ABCD">>

MerchantRefs == {CartRef(c) : c \in Carts} \cup {OrphanRef, UnknownRef, NoDashRef}

\* a notification as the gateway sends it
Payload(keys, code, ref, amount) ==
    [keys |-> keys, code |-> code, id |-> VendorId, ref |-> ref, amount |-> amount,
     currency |-> valid_currency, card |-> required_card_fields,
     items |-> CartItemsCount]

\* the request bodies of the model: SUCCESS notifications with every
\* reference, with a wrong amount and without a reference, and notifications
\* with the other kinds of result code for the orders
WebhookPayloads ==
    {Payload(SnakeKeys \cup CamelKeys \cup {"merchant_transaction_id"},
             Code_Success, r, "1000.00") : r \in MerchantRefs}
    \cup
    {Payload(SnakeKeys \cup CamelKeys \cup {"merchant_transaction_id"},
             Code_Success, CartRef(c), "999.99") : c \in Carts}
    \cup
    {Payload(SnakeKeys \cup CamelKeys, Code_Success, NoneSeq, "1000.00")}
    \cup
    {Payload(SnakeKeys \cup CamelKeys \cup {"merchant_transaction_id"},
             k, CartRef(c), "1000.00") :
        k \in {Code_Pending, Code_Declined, Code_ManualReview, Code_Empty},
        c \in Carts}

NoData ==
    [keys |-> {}, code |-> NoneSeq, id |-> None, ref |-> NoneSeq, amount |-> None,
     currency |-> None, card |-> {}, items |-> 0]

\* data['merchant_transaction_id'].split("-", 1)[1]: what follows the first dash
SplitAfterFirstDash(ref) == Tail(ref)

\* ------------------------------------------------------------ the state
VARIABLES
    cartStatus,         \* Cart.status of every cart
    transactions,       \* the Transaction table
    invoices,           \* the Invoice table
    fulfilled,          \* carts that fulfill_cart has fulfilled
    auditLog,           \* the AuditLog table
    pc,                 \* where each delivery is in post()
    data,               \* the decoded request body of each delivery
    transaction_id,     \* post()'s local transaction_id
    transaction,        \* post()'s local transaction
    transaction_cart,   \* transaction.cart, the Cart instance cached on it
    transaction_record, \* post()'s local transaction_record
    exc,                \* the exception a delivery caught or died of
    response,           \* the HTTP status a delivery answered with
    classified,         \* the classifier call under examination
    access_token,       \* HyperPayClient.access_token
    token_expiry,       \* HyperPayClient.token_expiry: <<>> or <<seconds>>
    utcnow,             \* datetime.utcnow(), in seconds
    gatewayLog,         \* the AuditLog rows the client wrote, in order
    call,               \* the client's last call and how it ended
    validated,          \* the validator call under examination
    view                \* the last return or status request and its answer

vars ==
    <<cartStatus, transactions, invoices, fulfilled, auditLog, pc, data,
      transaction_id, transaction, transaction_cart, transaction_record, exc,
      response, classified, access_token, token_expiry, utcnow, gatewayLog,
      call, validated, view>>

\* the state of the calls examined on their own, which no request touches
unitVars ==
    <<classified, access_token, token_expiry, utcnow, gatewayLog, call, validated,
      view>>

\* the state of the HyperPayClient instance and of its calls
clientVars == <<access_token, token_expiry, utcnow, gatewayLog, call>>

\* the state of post()'s locals and answers
deliveryVars ==
    <<pc, data, transaction_id, transaction, transaction_cart,
      transaction_record, exc, response>>

\* AuditLog.AuditActions
RECEIVED_RESPONSE == "RECEIVED_RESPONSE"
RESPONSE_INVALID_CART == "RESPONSE_INVALID_CART"
TRANSACTION_ROLLED_BACK == "TRANSACTION_ROLLED_BACK"
CART_FULFILLED == "CART_FULFILLED"
DUPLICATE_TRANSACTION == "DUPLICATE_TRANSACTION"

\* AuditLog.log(action, cart, gateway, context) called by delivery d
Audit(action, cart, d) == [action |-> action, cart |-> cart, by |-> d]

\* the Pending transaction a checkout leaves for every cart, a Pending
\* transaction without a cart, and optionally a transaction already
\* recorded under the vendor's id
PendingTransaction(c) ==
    [pk |-> c, gateway_transaction_id |-> SplitAfterFirstDash(CartRef(c)),
     status |-> "Pending", cart |-> c]
OrphanTransaction ==
    [pk |-> NumCarts + 1, gateway_transaction_id |-> SplitAfterFirstDash(OrphanRef),
     status |-> "Pending", cart |-> NoCart]
VendorIdTransaction ==
    [pk |-> NumCarts + 2, gateway_transaction_id |-> <<VendorId>>,
     status |-> "Success", cart |-> 1]

\* no Transaction instance bound to the local yet
NoTransaction ==
    [pk |-> 0, gateway_transaction_id |-> NoneSeq, status |-> None, cart |-> NoCart]

NoCartInstance == [id |-> NoCart, status |-> None]

\* no classifier call is under examination
NotClassified ==
    [code |-> NoneSeq, id |-> None, view |-> None, client |-> None, done |-> FALSE]

\* an exception message: its fixed text and what was formatted into it
NoMessage == [text |-> None, code |-> NoneSeq, error |-> None]

\* no call of the client has been made
NoCall ==
    [n |-> 0, op |-> None, requests |-> {}, raised |-> None, message |-> NoMessage,
     returned |-> <<>>, code |-> NoneSeq, error |-> None, expires_in |-> 0,
     token_before |-> None, expiry_before |-> <<>>, at |-> 0]

\* HyperPayClient.__init__: no token, no expiry; nothing called or logged
ClientConstructed ==
    /\ access_token = None
    /\ token_expiry = <<>>
    /\ utcnow = 0
    /\ gatewayLog = <<>>
    /\ call = NoCall

\* no validator call is under examination
NotValidated ==
    [response |-> NoData, items_count |-> 0, result |-> None, names |-> NoNames,
     done |-> FALSE]

\* the context render() is given for the waiting page
NoContext ==
    [ecommerce_transaction_id |-> NoneSeq, ecommerce_max_attempts |-> 0,
     ecommerce_wait_time |-> 0]

\* the JSON body of a status answer
NoBody == [invoice |-> 0, error |-> None]

\* no return or status request has been made
NoView ==
    [n |-> 0, name |-> None, checkout_id |-> None, transaction_id |-> NoneSeq,
     merchant_reference |-> NoneSeq, page |-> None, status |-> 0, exc |-> None,
     context |-> NoContext, body |-> NoBody]

Init ==
    /\ ClientConstructed
    /\ validated = NotValidated
    /\ view = NoView
    /\ cartStatus \in [Carts -> InitialCartStatuses]
    /\ \E recorded \in SUBSET {VendorIdTransaction} :
          transactions = {PendingTransaction(c) : c \in Carts}
                             \cup {OrphanTransaction} \cup recorded
    /\ invoices = {}
    /\ fulfilled = {}
    /\ auditLog = {}
    /\ pc = [d \in Deliveries |-> "idle"]
    /\ data = [d \in Deliveries |-> NoData]
    /\ transaction_id = [d \in Deliveries |-> NoneSeq]
    /\ transaction = [d \in Deliveries |-> NoTransaction]
    /\ transaction_cart = [d \in Deliveries |-> NoCartInstance]
    /\ transaction_record = [d \in Deliveries |-> NoTransaction]
    /\ exc = [d \in Deliveries |-> None]
    /\ response = [d \in Deliveries |-> 0]
    /\ classified = NotClassified

\* the delivery ends: an HttpResponse, or 500 for an exception that escapes
Return(d, status, e) ==
    /\ pc' = [pc EXCEPT ![d] = "done"]
    /\ response' = [response EXCEPT ![d] = status]
    /\ exc' = [exc EXCEPT ![d] = e]

\* ---------------------------------------------- HyperPayWebhookView.post
\* if status != PaymentStatus.SUCCESS, with FAILURE alone ending the delivery
EarlyReturn_FailureOnly(status) == status = FAILURE

\* if status != PaymentStatus.SUCCESS: ... return HttpResponse(status=200)
EarlyReturn(status) == status # SUCCESS

\* json.loads, the RECEIVED_RESPONSE audit entry, _verify_status, the early
\* return for a status other than SUCCESS, and the split of the reference
PostReceive(d) ==
    /\ pc[d] = "idle"
    /\ \E body \in WebhookPayloads :
        /\ data' = [data EXCEPT ![d] = body]
        /\ auditLog' = auditLog \cup {Audit(RECEIVED_RESPONSE, NoCart, d)}
        /\ LET status == _verify_status(body.code, body.id) IN
           IF status = HyperPayBadGatewayResponse
           THEN /\ Return(d, 500, HyperPayBadGatewayResponse)
                /\ UNCHANGED transaction_id
           ELSE IF EarlyReturn(status)
           THEN /\ Return(d, 200, None)
                /\ UNCHANGED transaction_id
           ELSE IF "merchant_transaction_id" \notin body.keys
           THEN /\ Return(d, 500, "KeyError")
                /\ UNCHANGED transaction_id
           ELSE IF Len(body.ref) < 2
           THEN /\ Return(d, 500, "IndexError")
                /\ UNCHANGED transaction_id
           ELSE /\ transaction_id' =
                       [transaction_id EXCEPT ![d] = SplitAfterFirstDash(body.ref)]
                /\ pc' = [pc EXCEPT ![d] = "lookup"]
                /\ UNCHANGED <<response, exc>>
    /\ UNCHANGED <<cartStatus, transactions, invoices, fulfilled, transaction,
                   transaction_cart, transaction_record>>
    /\ UNCHANGED unitVars

\* the status the tests expect for a reference that resolves to nothing (400),
\* and the status post() answers with when no pending transaction is found
NotFoundStatus_BadRequest == 400
NotFoundStatus == 200

\* Transaction.objects.get(gateway_transaction_id=..., status='Pending')
PendingMatches(txns, gtid) ==
    {t \in txns : t.gateway_transaction_id = gtid /\ t.status = "Pending"}

PostLookup(d) ==
    /\ pc[d] = "lookup"
    /\ LET found == PendingMatches(transactions, transaction_id[d]) IN
       IF found = {}
       THEN /\ auditLog' = auditLog \cup {Audit(RESPONSE_INVALID_CART, NoCart, d)}
            /\ Return(d, NotFoundStatus, "Transaction.DoesNotExist")
            /\ UNCHANGED transaction
       ELSE IF Cardinality(found) > 1
       THEN /\ Return(d, 500, "Transaction.MultipleObjectsReturned")
            /\ UNCHANGED <<auditLog, transaction>>
       ELSE /\ transaction' = [transaction EXCEPT ![d] = CHOOSE t \in found : TRUE]
            /\ pc' = [pc EXCEPT ![d] = "cart"]
            /\ UNCHANGED <<auditLog, response, exc>>
    /\ UNCHANGED <<cartStatus, transactions, invoices, fulfilled, data,
                   transaction_id, transaction_cart, transaction_record>>
    /\ UNCHANGED unitVars

\* no cart-state check at all
CartStateAccepted_Any(status) == TRUE

\* the cart-state check letting every order through that is not paid yet
CartStateAccepted_NotPaid(status) == status # PAID

\* the cart-state check letting PAYMENT_PENDING through as well
CartStateAccepted_OrPaymentPending(status) == status \in {PROCESSING, PAYMENT_PENDING}

\* if transaction.cart.status != Cart.Status.PROCESSING: ... return
CartStateAccepted(status) == status = PROCESSING

\* transaction.cart is loaded on its first use; then the cart-state check
PostCheckCart(d) ==
    /\ pc[d] = "cart"
    /\ IF transaction[d].cart = NoCart
       THEN /\ auditLog' = auditLog \cup {Audit(RESPONSE_INVALID_CART, NoCart, d)}
            /\ Return(d, 200, None)
            /\ UNCHANGED transaction_cart
       ELSE LET c == transaction[d].cart
                loaded == [id |-> c, status |-> cartStatus[c]] IN
            /\ transaction_cart' = [transaction_cart EXCEPT ![d] = loaded]
            /\ IF ~CartStateAccepted(loaded.status)
               THEN /\ auditLog' = auditLog \cup {Audit(RESPONSE_INVALID_CART, c, d)}
                    /\ Return(d, 200, None)
               ELSE /\ pc' = [pc EXCEPT ![d] = "handle"]
                    /\ UNCHANGED <<auditLog, response, exc>>
    /\ UNCHANGED <<cartStatus, transactions, invoices, fulfilled, data,
                   transaction_id, transaction, transaction_record>>
    /\ UNCHANGED unitVars

\* ------------------------------------- the payments-core collaborator
DuplicateTransaction == "DuplicateTransaction"

\* BaseProcessor.handle_payment: the exception it raises, or None.  It fails
\* for a reason of its own (failure), or because a payment is already
\* recorded under the transaction id it is given.
handle_payment_raises(txns, gtid, failure) ==
    IF failure THEN "Exception"
    ELSE IF \E t \in txns : t.gateway_transaction_id = gtid /\ t.status = "Success"
    THEN DuplicateTransaction
    ELSE None

\* handle_payment losing the pending transaction instead of updating it
handle_payment_record_Lost(txns, pending_transaction, transaction_status) ==
    {t \in txns : t.pk # pending_transaction.pk}

\* BaseProcessor.handle_payment: the Transaction table after it recorded the
\* payment on the pending transaction it was given
handle_payment_record(txns, pending_transaction, transaction_status) ==
    {t \in txns : t.pk # pending_transaction.pk}
        \cup {[pending_transaction EXCEPT !.status = transaction_status]}

\* the keys post() reads from data to build handle_payment's arguments
HandlePaymentKeys == {"payment_brand", "amount", "currency", "result"}

\* the payment-handling step without db_transaction.atomic(): what
\* handle_payment wrote before it failed stays written
PostHandlePayment_NoAtomic(d) ==
    /\ pc[d] = "handle"
    /\ \E failure \in BOOLEAN :
        LET c == transaction_cart[d].id
            raised == IF ~(HandlePaymentKeys \subseteq data[d].keys)
                      THEN "KeyError"
                      ELSE handle_payment_raises(transactions, transaction_id[d], failure)
        IN
        IF raised # None
        THEN /\ auditLog' = auditLog \cup {Audit(TRANSACTION_ROLLED_BACK, c, d)}
             /\ Return(d, 200, raised)
             /\ transactions' =
                    IF raised = "Exception"
                    THEN handle_payment_record(transactions, transaction[d], "Success")
                    ELSE transactions
             /\ UNCHANGED <<cartStatus, transaction_record>>
        ELSE /\ transactions' =
                    handle_payment_record(transactions, transaction[d], "Success")
             /\ cartStatus' = [cartStatus EXCEPT ![c] = PAID]
             /\ transaction_record' =
                    [transaction_record EXCEPT
                        ![d] = [transaction[d] EXCEPT !.status = "Success"]]
             /\ pc' = [pc EXCEPT ![d] = "invoice"]
             /\ UNCHANGED <<auditLog, response, exc>>
    /\ UNCHANGED <<invoices, fulfilled, data, transaction_id, transaction,
                   transaction_cart>>
    /\ UNCHANGED unitVars

\* with db_transaction.atomic(): handle_payment(...); except Exception: ...
PostHandlePayment(d) ==
    /\ pc[d] = "handle"
    /\ \E failure \in BOOLEAN :
        LET c == transaction_cart[d].id
            raised == IF ~(HandlePaymentKeys \subseteq data[d].keys)
                      THEN "KeyError"
                      ELSE handle_payment_raises(transactions, transaction_id[d], failure)
        IN
        IF raised # None
        THEN /\ auditLog' = auditLog \cup {Audit(TRANSACTION_ROLLED_BACK, c, d)}
             /\ Return(d, 200, raised)
             /\ UNCHANGED <<cartStatus, transactions, transaction_record>>
        ELSE /\ transactions' =
                    handle_payment_record(transactions, transaction[d], "Success")
             /\ cartStatus' = [cartStatus EXCEPT ![c] = PAID]
             /\ transaction_record' =
                    [transaction_record EXCEPT
                        ![d] = [transaction[d] EXCEPT !.status = "Success"]]
             /\ pc' = [pc EXCEPT ![d] = "invoice"]
             /\ UNCHANGED <<auditLog, response, exc>>
    /\ UNCHANGED <<invoices, fulfilled, data, transaction_id, transaction,
                   transaction_cart>>
    /\ UNCHANGED unitVars

\* the invoice step without its try/except: the exception escapes post()
PostCreateInvoice_Uncaught(d) ==
    /\ pc[d] = "invoice"
    /\ LET c == transaction_cart[d].id IN
       /\ transaction_cart' =
              [transaction_cart EXCEPT ![d] = [id |-> c, status |-> cartStatus[c]]]
       /\ \E failure \in BOOLEAN :
            IF failure
            THEN /\ Return(d, 500, "Exception")
                 /\ UNCHANGED invoices
            ELSE /\ invoices' = invoices \cup
                        {[pk |-> Cardinality(invoices) + 1, cart |-> c,
                          related_transaction |-> transaction_record[d].pk]}
                 /\ pc' = [pc EXCEPT ![d] = "fulfill"]
                 /\ UNCHANGED <<response, exc>>
    /\ UNCHANGED <<cartStatus, transactions, fulfilled, auditLog, data,
                   transaction_id, transaction, transaction_record>>
    /\ UNCHANGED unitVars

\* the invoice step going on to fulfillment when create_invoice raised
PostCreateInvoice_GoesOn(d) ==
    /\ pc[d] = "invoice"
    /\ LET c == transaction_cart[d].id IN
       /\ transaction_cart' =
              [transaction_cart EXCEPT ![d] = [id |-> c, status |-> cartStatus[c]]]
       /\ \E failure \in BOOLEAN :
            IF failure
            THEN /\ pc' = [pc EXCEPT ![d] = "fulfill"]
                 /\ UNCHANGED <<invoices, response, exc>>
            ELSE /\ invoices' = invoices \cup
                        {[pk |-> Cardinality(invoices) + 1, cart |-> c,
                          related_transaction |-> transaction_record[d].pk]}
                 /\ pc' = [pc EXCEPT ![d] = "fulfill"]
                 /\ UNCHANGED <<response, exc>>
    /\ UNCHANGED <<cartStatus, transactions, fulfilled, auditLog, data,
                   transaction_id, transaction, transaction_record>>
    /\ UNCHANGED unitVars

\* transaction.cart.refresh_from_db(); create_invoice(...), which may raise
PostCreateInvoice(d) ==
    /\ pc[d] = "invoice"
    /\ LET c == transaction_cart[d].id IN
       /\ transaction_cart' =
              [transaction_cart EXCEPT ![d] = [id |-> c, status |-> cartStatus[c]]]
       /\ \E failure \in BOOLEAN :
            IF failure
            THEN /\ Return(d, 200, "Exception")
                 /\ UNCHANGED invoices
            ELSE /\ invoices' = invoices \cup
                        {[pk |-> Cardinality(invoices) + 1, cart |-> c,
                          related_transaction |-> transaction_record[d].pk]}
                 /\ pc' = [pc EXCEPT ![d] = "fulfill"]
                 /\ UNCHANGED <<response, exc>>
    /\ UNCHANGED <<cartStatus, transactions, fulfilled, auditLog, data,
                   transaction_id, transaction, transaction_record>>
    /\ UNCHANGED unitVars

\* the fulfillment step undoing the payment when fulfill_cart raises
PostFulfillCart_RollsBack(d) ==
    /\ pc[d] = "fulfill"
    /\ LET c == transaction_cart[d].id IN
       \E failure \in BOOLEAN :
            IF failure
            THEN /\ Return(d, 200, "Exception")
                 /\ cartStatus' = [cartStatus EXCEPT ![c] = PROCESSING]
                 /\ transactions' =
                        handle_payment_record(transactions, transaction[d], "Pending")
                 /\ UNCHANGED <<fulfilled, auditLog>>
            ELSE /\ fulfilled' = fulfilled \cup {c}
                 /\ auditLog' = auditLog \cup {Audit(CART_FULFILLED, c, d)}
                 /\ Return(d, 200, None)
                 /\ UNCHANGED <<cartStatus, transactions>>
    /\ UNCHANGED <<invoices, data, transaction_id,
                   transaction, transaction_cart, transaction_record>>
    /\ UNCHANGED unitVars

\* fulfill_cart(...), which may raise, and the CART_FULFILLED audit entry
PostFulfillCart(d) ==
    /\ pc[d] = "fulfill"
    /\ LET c == transaction_cart[d].id IN
       \E failure \in BOOLEAN :
            IF failure
            THEN /\ Return(d, 200, "Exception")
                 /\ UNCHANGED <<fulfilled, auditLog>>
            ELSE /\ fulfilled' = fulfilled \cup {c}
                 /\ auditLog' = auditLog \cup {Audit(CART_FULFILLED, c, d)}
                 /\ Return(d, 200, None)
    /\ UNCHANGED <<cartStatus, transactions, invoices, data, transaction_id,
                   transaction, transaction_cart, transaction_record>>
    /\ UNCHANGED unitVars

\* ------------------------------------------------- the other two views
\* the `by` of the audit entries the return and the status view write
ReturnRequest == 0
StatusRequest == -1

\* HyperPayReturnView.get: verify_checkout_status writes a RECEIVED_RESPONSE
\* entry once the gateway has answered, the view writes one when the answer
\* is accepted; nothing else is written
HyperPayReturnView_get ==
    /\ auditLog' = auditLog \cup {Audit(RECEIVED_RESPONSE, NoCart, ReturnRequest)}
    /\ auditLog' # auditLog
    /\ UNCHANGED <<cartStatus, transactions, invoices, fulfilled>>
    /\ UNCHANGED deliveryVars
    /\ UNCHANGED unitVars

\* request.GET.get('transaction_id') of the status requests of the model
StatusQueryIds ==
    {NoneSeq, <<VendorId>>, SplitAfterFirstDash(OrphanRef),
     SplitAfterFirstDash(UnknownRef)}
        \cup {SplitAfterFirstDash(CartRef(c)) : c \in Carts}

\* HyperPayStatusView.get: a RESPONSE_INVALID_CART entry when the transaction
\* does not exist or has no cart; nothing else is written
HyperPayStatusView_get ==
    /\ \E query \in StatusQueryIds :
          LET found == {t \in transactions : t.gateway_transaction_id = query} IN
          /\ query # NoneSeq
          /\ found = {} \/ \E t \in found : t.cart = NoCart
          /\ auditLog' =
                auditLog \cup {Audit(RESPONSE_INVALID_CART, NoCart, StatusRequest)}
    /\ auditLog' # auditLog
    /\ UNCHANGED <<cartStatus, transactions, invoices, fulfilled>>
    /\ UNCHANGED deliveryVars
    /\ UNCHANGED unitVars

Next ==
    \/ \E d \in Deliveries :
        \/ PostReceive(d)
        \/ PostLookup(d)
        \/ PostCheckCart(d)
        \/ PostHandlePayment(d)
        \/ PostCreateInvoice(d)
        \/ PostFulfillCart(d)
    \/ HyperPayReturnView_get
    \/ HyperPayStatusView_get

Spec == Init /\ [][Next]_vars

\* =================================================== properties
\* delivery d committed its payment-handling step
Won(d) == transaction_record[d] # NoTransaction

\* payments recorded for cart c under transaction id gtid
RecordedPayments(c, gtid) ==
    {t \in transactions :
        t.cart = c /\ t.gateway_transaction_id = gtid /\ t.status = "Success"}

InvoicesOf(c) == {i \in invoices : i.cart = c}

Audited(action, c, d) == Audit(action, c, d) \in auditLog

\* delivery d takes the step of post() that starts at position p
Steps(d, p) == pc[d] = p /\ pc'[d] # p

\* nothing of the order, transaction and invoice tables changes
TablesUnchanged == UNCHANGED <<cartStatus, transactions, invoices, fulfilled>>

\* C1: of two concurrent deliveries of the same notification for one order,
\* one records the payment and the other, detected as a duplicate, leaves
\* exactly one recorded payment and a DUPLICATE_TRANSACTION audit entry.
C1_DuplicateLoserIsAudited ==
    \A w \in Deliveries : \A l \in Deliveries \ {w} :
        (/\ pc[w] = "done" /\ pc[l] = "done"
         /\ data[w] = data[l]
         /\ Won(w)
         /\ exc[l] = DuplicateTransaction)
        => /\ ~Won(l)
           /\ Cardinality(RecordedPayments(transaction_cart[w].id,
                                           transaction_id[w])) = 1
           /\ Audited(DUPLICATE_TRANSACTION, transaction_cart[l].id, l)

\* C2: the cart-state check and the payment handling of one order are
\* serialized: no two deliveries are at once past the check of the same
\* order and before its payment handling.
C2_CheckThenPayIsSerialized ==
    \A d1 \in Deliveries : \A d2 \in Deliveries \ {d1} :
        ~(/\ pc[d1] = "handle" /\ pc[d2] = "handle"
          /\ transaction_cart[d1].id = transaction_cart[d2].id)

C4_RecordedVendorIdIsDuplicate ==
    \A d \in Deliveries :
        (/\ pc[d] = "done"
         /\ _verify_status(data[d].code, data[d].id) = SUCCESS
         /\ \E t \in transactions : t.gateway_transaction_id = <<data[d].id>>)
        => /\ \E a \in auditLog : a.action = DUPLICATE_TRANSACTION /\ a.by = d
           /\ ~Won(d)
           /\ response[d] = 200

\* C5: the cart-state check of an order that is neither PROCESSING nor
\* PAYMENT_PENDING ends the delivery with 200 and a RESPONSE_INVALID_CART
\* audit entry for the order, and changes no order, transaction or invoice.
C5_OtherStatesRejected ==
    [][\A d \in Deliveries :
         (/\ Steps(d, "cart")
          /\ transaction[d].cart # NoCart
          /\ cartStatus[transaction[d].cart] \notin {PROCESSING, PAYMENT_PENDING})
         => /\ pc'[d] = "done"
            /\ response'[d] = 200
            /\ Audit(RESPONSE_INVALID_CART, transaction[d].cart, d) \in auditLog'
            /\ ~Won(d)'
            /\ TablesUnchanged]_vars

C5_Witness ==
    \E d \in Deliveries : \E c \in Carts :
        /\ pc[d] = "done" /\ response[d] = 200
        /\ cartStatus[c] = CANCELLED
        /\ Audited(RESPONSE_INVALID_CART, c, d)

\* C6: a SUCCESS delivery whose payment-handling step committed has its
\* order PAID, a recorded payment for the order in the Transaction table,
\* and answers 200.
C6_SuccessPaysTheOrder ==
    \A d \in Deliveries :
        Won(d) => LET c == transaction_cart[d].id IN
                  /\ cartStatus[c] = PAID
                  /\ RecordedPayments(c, transaction_id[d]) # {}
                  /\ (pc[d] = "done" => response[d] = 200)

C6_Witness ==
    \E d \in Deliveries :
        /\ pc[d] = "done" /\ Won(d) /\ response[d] = 200
        /\ cartStatus[transaction_cart[d].id] = PAID

\* C7 (as claimed): the cart-state check lets an order in PAYMENT_PENDING
\* through to payment handling, as it does an order in PROCESSING.
C7_PaymentPendingReconciled ==
    [][\A d \in Deliveries :
         (/\ Steps(d, "cart")
          /\ transaction[d].cart # NoCart
          /\ cartStatus[transaction[d].cart] = PAYMENT_PENDING)
         => pc'[d] = "handle"]_vars

\* C7 (amended): the cart-state check rejects an order in PAYMENT_PENDING as
\* an invalid cart state: 200, a RESPONSE_INVALID_CART audit entry for the
\* order, no change to orders, transactions or invoices.
C7_PaymentPendingRejected ==
    [][\A d \in Deliveries :
         (/\ Steps(d, "cart")
          /\ transaction[d].cart # NoCart
          /\ cartStatus[transaction[d].cart] = PAYMENT_PENDING)
         => /\ pc'[d] = "done"
            /\ response'[d] = 200
            /\ Audit(RESPONSE_INVALID_CART, transaction[d].cart, d) \in auditLog'
            /\ TablesUnchanged]_vars

C7_Witness ==
    \E d \in Deliveries : \E c \in Carts :
        /\ pc[d] = "done" /\ response[d] = 200
        /\ cartStatus[c] = PAYMENT_PENDING
        /\ Audited(RESPONSE_INVALID_CART, c, d)

\* the cart a merchant reference names
RefNames(ref, c) == ref = CartRef(c)

FailureCodes == {Code_Declined, Code_ManualReview}

\* C8 (as claimed): a FAILURE notification for an order in PROCESSING moves
\* the order to CANCELLED and creates no Transaction.
C8_FailureCancels ==
    [][\A d \in Deliveries : \A c \in Carts :
         (/\ Steps(d, "idle")
          /\ data'[d].code \in FailureCodes
          /\ RefNames(data'[d].ref, c)
          /\ cartStatus[c] = PROCESSING)
         => /\ cartStatus'[c] = CANCELLED
            /\ transactions' = transactions]_vars

\* C8 (amended): a FAILURE notification ends the delivery with 200 at once
\* and changes no order, transaction or invoice: a PROCESSING order stays
\* PROCESSING.
C8_FailureChangesNothing ==
    [][\A d \in Deliveries :
         (Steps(d, "idle") /\ data'[d].code \in FailureCodes)
         => /\ pc'[d] = "done"
            /\ response'[d] = 200
            /\ TablesUnchanged]_vars

C8_Witness ==
    \E d \in Deliveries : \E c \in Carts :
        /\ pc[d] = "done" /\ response[d] = 200
        /\ data[d].code \in FailureCodes
        /\ RefNames(data[d].ref, c)
        /\ cartStatus[c] = PROCESSING

\* C9 (as claimed): a PENDING notification for an order in PROCESSING or
\* PAYMENT_PENDING leaves the order in PAYMENT_PENDING.
C9_PendingMarksPaymentPending ==
    [][\A d \in Deliveries : \A c \in Carts :
         (/\ Steps(d, "idle")
          /\ data'[d].code = Code_Pending
          /\ RefNames(data'[d].ref, c)
          /\ cartStatus[c] \in {PROCESSING, PAYMENT_PENDING})
         => /\ cartStatus'[c] = PAYMENT_PENDING
            /\ transactions' = transactions]_vars

\* C9 (amended): a PENDING notification ends the delivery with 200 at once
\* and changes no order, transaction or invoice; no step of the webhook puts
\* an order into PAYMENT_PENDING.
C9_PendingChangesNothing ==
    [][/\ \A d \in Deliveries :
            (Steps(d, "idle") /\ data'[d].code = Code_Pending)
            => /\ pc'[d] = "done"
               /\ response'[d] = 200
               /\ TablesUnchanged
       /\ \A c \in Carts :
            cartStatus'[c] = PAYMENT_PENDING => cartStatus[c] = PAYMENT_PENDING]_vars

C9_Witness ==
    \E d \in Deliveries : \E c \in Carts :
        /\ pc[d] = "done" /\ response[d] = 200
        /\ data[d].code = Code_Pending
        /\ RefNames(data[d].ref, c)
        /\ cartStatus[c] = PROCESSING

\* C10: payment handling commits only for a notification that passes
\* verify_success_response_with_cart against the order.
C10_ValidatedBeforeCommit ==
    \A d \in Deliveries :
        Won(d) => verify_success_response_with_cart(
                      data[d], CartTotal, CartItemsCount) = OK

\* the invoice create_invoice made for the payment delivery d recorded
InvoiceOf(d) ==
    {i \in invoices : i.related_transaction = transaction_record[d].pk}

\* C11: when fulfill_cart fails after the payment was committed, the delivery
\* ends with 200, the recorded payment and the invoice stay, the order stays
\* PAID and no order, transaction or invoice is changed.
C11_FulfillmentFailureOnlyLogged ==
    [][\A d \in Deliveries :
         (/\ Steps(d, "fulfill")
          /\ Audit(CART_FULFILLED, transaction_cart[d].id, d) \notin auditLog')
         => LET c == transaction_cart[d].id IN
            /\ pc'[d] = "done"
            /\ response'[d] = 200
            /\ UNCHANGED <<cartStatus, transactions, invoices>>
            /\ cartStatus'[c] = PAID
            /\ RecordedPayments(c, transaction_id[d])' # {}]_vars

C11_Witness ==
    \E d \in Deliveries :
        /\ pc[d] = "done" /\ Won(d) /\ exc[d] = "Exception"
        /\ InvoiceOf(d) # {}
        /\ ~Audited(CART_FULFILLED, transaction_cart[d].id, d)
        /\ cartStatus[transaction_cart[d].id] = PAID
        /\ response[d] = 200

\* C12: when the payment-handling step fails, nothing it wrote remains: the
\* delivery ends with 200 and a TRANSACTION_ROLLED_BACK audit entry for the
\* order, no order, transaction or invoice is changed, and an order that was
\* PROCESSING is still PROCESSING with its transaction still Pending, so that
\* a later delivery passes the lookup and the cart-state check again.
C12_FailedPaymentRolledBack ==
    [][\A d \in Deliveries :
         (Steps(d, "handle") /\ ~Won(d)')
         => LET c == transaction_cart[d].id IN
            /\ pc'[d] = "done"
            /\ response'[d] = 200
            /\ Audit(TRANSACTION_ROLLED_BACK, c, d) \in auditLog'
            /\ TablesUnchanged
            /\ (cartStatus[c] = PROCESSING
                => /\ cartStatus'[c] = PROCESSING
                   /\ PendingMatches(transactions', transaction_id[d]) # {})]_vars

\* a delivery was rolled back and a later delivery of the same notification
\* completed the payment
C12_Witness ==
    \E d \in Deliveries : \E r \in Deliveries \ {d} :
        /\ pc[d] = "done" /\ exc[d] = "Exception" /\ ~Won(d)
        /\ Audited(TRANSACTION_ROLLED_BACK, transaction_cart[d].id, d)
        /\ response[d] = 200
        /\ data[r] = data[d] /\ Won(r)
        /\ cartStatus[transaction_cart[r].id] = PAID

\* C13: a delivery whose invoice creation failed leaves no recorded payment:
\* its order is PROCESSING and the Transaction is rolled back.
C13_InvoiceFailureRollsBack ==
    \A d \in Deliveries :
        (pc[d] = "done" /\ Won(d) /\ InvoiceOf(d) = {})
        => LET c == transaction_cart[d].id IN
           /\ cartStatus[c] = PROCESSING
           /\ RecordedPayments(c, transaction_id[d]) = {}

\* delivery d carries a SUCCESS notification
IsSuccessDelivery(d) == _verify_status(data[d].code, data[d].id) = SUCCESS

\* the merchant reference of delivery d has a dash to split at
HasSplittableRef(d) ==
    "merchant_transaction_id" \in data[d].keys /\ Len(data[d].ref) >= 2

\* the merchant reference of delivery d names no transaction of an order
ResolvesToNoOrder(d) ==
    ~\E t \in transactions :
        /\ t.gateway_transaction_id = SplitAfterFirstDash(data[d].ref)
        /\ t.cart # NoCart

\* C14: a SUCCESS delivery with a well-formed merchant reference is answered
\* with 400 when the reference resolves to no order, and with 200 otherwise.
C14_BadRequestForUnknownOrder ==
    \A d \in Deliveries :
        (pc[d] = "done" /\ IsSuccessDelivery(d) /\ HasSplittableRef(d))
        => response[d] = (IF ResolvesToNoOrder(d) THEN 400 ELSE 200)

\* the number of dash-separated segments of a merchant reference
ExpectedSegments == 3

\* C15: a SUCCESS delivery whose merchant reference is missing or has another
\* number of segments than expected ends without an escaping exception, with
\* an invalid-reference audit entry and without recording a payment.
C15_MalformedReferenceHandled ==
    \A d \in Deliveries :
        (/\ pc[d] = "done" /\ IsSuccessDelivery(d)
         /\ \/ "merchant_transaction_id" \notin data[d].keys
            \/ Len(data[d].ref) # ExpectedSegments)
        => /\ response[d] # 500
           /\ exc[d] \notin {"KeyError", "IndexError"}
           /\ \E a \in auditLog : a.by = d /\ a.action = RESPONSE_INVALID_CART
           /\ ~Won(d)

\* C16: a delivery whose payload the classifier rejects with
\* HyperPayBadGatewayResponse is answered with 200; the exception does not
\* leave post().
C16_BadGatewayResponseCaught ==
    \A d \in Deliveries :
        (/\ pc[d] = "done"
         /\ _verify_status(data[d].code, data[d].id) = HyperPayBadGatewayResponse)
        => response[d] = 200 /\ exc[d] # HyperPayBadGatewayResponse

\* C17: an order's status changes only in the payment-handling step of a
\* delivery, only from PROCESSING, and only to PAID or CANCELLED; no webhook,
\* return or status request changes the status of an order that is PAID or
\* CANCELLED, so the status of an order is written at most once.
C17_StatusWrittenOnce ==
    [][\A c \in Carts :
         cartStatus'[c] # cartStatus[c]
         => /\ cartStatus[c] = PROCESSING
            /\ cartStatus'[c] \in {PAID, CANCELLED}
            /\ \E d \in Deliveries :
                 Steps(d, "handle") /\ transaction_cart[d].id = c]_vars

\* an order was paid, and a repeat delivery, a return request and a status
\* request were handled besides
C17_Witness ==
    \E w \in Deliveries : \E r \in Deliveries \ {w} :
        /\ Won(w) /\ pc[w] = "done"
        /\ cartStatus[transaction_cart[w].id] = PAID
        /\ pc[r] = "done" /\ data[r] = data[w] /\ ~Won(r)
        /\ Audit(RECEIVED_RESPONSE, NoCart, ReturnRequest) \in auditLog
        /\ Audit(RESPONSE_INVALID_CART, NoCart, StatusRequest) \in auditLog

\* ============================================== the classifier on its own
\* HyperPayClient's copies of the patterns
\* the client's success pattern taking the manual-review family too
Client_SUCCESS_CODES_REGEX_WithManualReview(s) ==
    \/ StartsWith(s, <<"0","0","0",".","0","0","0",".">>)
    \/ StartsWith(s, <<"0","0","0",".","1","0","0",".","1">>)
    \/ /\ StartsWith(s, <<"0","0","0",".">>)
       /\ Len(s) >= 5
       /\ s[5] \in {"3", "4", "6"}

\* ^(000\.000\.|000\.100\.1|000\.[36])
Client_SUCCESS_CODES_REGEX(s) ==
    \/ StartsWith(s, <<"0","0","0",".","0","0","0",".">>)
    \/ StartsWith(s, <<"0","0","0",".","1","0","0",".","1">>)
    \/ /\ StartsWith(s, <<"0","0","0",".">>)
       /\ Len(s) >= 5
       /\ s[5] \in {"3", "6"}

\* the client's manual-review pattern reaching into the 000.6 codes
Client_SUCCESS_MANUAL_REVIEW_CODES_REGEX_Overlapping(s) ==
    \/ StartsWith(s, <<"0","0","0",".","4","0","0",".">>)
    \/ StartsWith(s, <<"0","0","0",".","6">>)

\* ^(000\.400\.0[^3]|000\.400\.[0-1]{2}0)
Client_SUCCESS_MANUAL_REVIEW_CODES_REGEX(s) ==
    \/ /\ StartsWith(s, <<"0","0","0",".","4","0","0",".","0">>)
       /\ Len(s) >= 10
       /\ s[10] # "3"
    \/ /\ StartsWith(s, <<"0","0","0",".","4","0","0",".">>)
       /\ Len(s) >= 11
       /\ s[9] \in {"0", "1"}
       /\ s[10] \in {"0", "1"}
       /\ s[11] = "0"

\* the client's pending pattern asking for the dot after the second segment
Client_PENDING_CHANGEABLE_SOON_CODES_REGEX_TrailingDot(s) ==
    StartsWith(s, <<"0","0","0",".","2","0","0",".">>)

\* ^(000\.200)
Client_PENDING_CHANGEABLE_SOON_CODES_REGEX(s) ==
    StartsWith(s, <<"0","0","0",".","2","0","0">>)

\* ^(800\.400\.5|100\.400\.500)
Client_PENDING_NOT_CHANGEABLE_SOON_CODES_REGEX(s) ==
    \/ StartsWith(s, <<"8","0","0",".","4","0","0",".","5">>)
    \/ StartsWith(s, <<"1","0","0",".","4","0","0",".","5","0","0">>)

\* the client's classifier leaving the stuck pending codes PENDING
verify_webhook_callback_status_StuckPending(result_code, payment_id) ==
    IF result_code = NoneSeq \/ result_code = <<>> \/ payment_id = None \/ payment_id = ""
    THEN HyperPayBadGatewayResponse
    ELSE IF Client_PENDING_CHANGEABLE_SOON_CODES_REGEX(result_code) THEN PENDING
    ELSE IF Client_PENDING_NOT_CHANGEABLE_SOON_CODES_REGEX(result_code) THEN PENDING
    ELSE IF Client_SUCCESS_CODES_REGEX(result_code) THEN SUCCESS
    ELSE IF Client_SUCCESS_MANUAL_REVIEW_CODES_REGEX(result_code) THEN FAILURE
    ELSE FAILURE

\* HyperPayClient.verify_webhook_callback_status
verify_webhook_callback_status(result_code, payment_id) ==
    IF result_code = NoneSeq \/ result_code = <<>> \/ payment_id = None \/ payment_id = ""
    THEN HyperPayBadGatewayResponse
    ELSE IF Client_PENDING_CHANGEABLE_SOON_CODES_REGEX(result_code) THEN PENDING
    ELSE IF Client_PENDING_NOT_CHANGEABLE_SOON_CODES_REGEX(result_code) THEN FAILURE
    ELSE IF Client_SUCCESS_CODES_REGEX(result_code) THEN SUCCESS
    ELSE IF Client_SUCCESS_MANUAL_REVIEW_CODES_REGEX(result_code) THEN FAILURE
    ELSE FAILURE

\* the result codes the classifier is examined on: every code made of one
\* of these first, second and third segments, and some shorter texts
FirstSegments == {<<"0","0","0">>, <<"1","0","0">>, <<"8","0","0">>, <<"9","9","9">>}
SecondSegments ==
    {<<"0","0","0">>, <<"1","0","0">>, <<"2","0","0">>, <<"3","0","0">>,
     <<"4","0","0">>, <<"6","0","0">>, <<"9","9","9">>}
ThirdSegments ==
    {<<"0","0","0">>, <<"0","1","0">>, <<"0","3","0">>, <<"1","0","0">>,
     <<"1","1","0">>, <<"5","0","0">>, <<"9","9","9">>}

ShortCodes ==
    {<<>>, NoneSeq,
     <<"0","0","0",".","2","0","0">>,
     <<"0","0","0",".","2","0","0","1">>,
     <<"0","0","0",".","1","0","0",".","1">>,
     <<"0","0","0",".","3">>,
     <<"0","0","0",".","6">>,
     <<"0","0","0",".","0","0","0">>,
     <<"8","0","0",".","4","0","0",".","5">>,
     <<"0","0","0",".","4","0","0",".","0">>}

ClassifierCodes ==
    {a \o <<".">> \o b \o <<".">> \o c :
        a \in FirstSegments, b \in SecondSegments, c \in ThirdSegments}
    \cup ShortCodes

\* response_data.get('id'): absent, empty or an id
ClassifierIds == {None, "", VendorId}

InitClassifier ==
    /\ ClientConstructed
    /\ validated = NotValidated
    /\ view = NoView
    /\ cartStatus = [c \in Carts |-> PROCESSING]
    /\ transactions = {PendingTransaction(c) : c \in Carts} \cup {OrphanTransaction}
    /\ invoices = {}
    /\ fulfilled = {}
    /\ auditLog = {}
    /\ pc = [d \in Deliveries |-> "idle"]
    /\ data = [d \in Deliveries |-> NoData]
    /\ transaction_id = [d \in Deliveries |-> NoneSeq]
    /\ transaction = [d \in Deliveries |-> NoTransaction]
    /\ transaction_cart = [d \in Deliveries |-> NoCartInstance]
    /\ transaction_record = [d \in Deliveries |-> NoTransaction]
    /\ exc = [d \in Deliveries |-> None]
    /\ response = [d \in Deliveries |-> 0]
    /\ \E code \in ClassifierCodes : \E id \in ClassifierIds :
          classified = [NotClassified EXCEPT !.code = code, !.id = id]

\* one call of each copy of the classifier on the same payload
Classify ==
    /\ ~classified.done
    /\ classified' =
          [classified EXCEPT
              !.view = _verify_status(classified.code, classified.id),
              !.client = verify_webhook_callback_status(classified.code, classified.id),
              !.done = TRUE]
    /\ UNCHANGED <<cartStatus, transactions, invoices, fulfilled, auditLog>>
    /\ UNCHANGED deliveryVars
    /\ UNCHANGED clientVars
    /\ UNCHANGED <<validated, view>>

NextClassifier == Classify

SpecClassifier == InitClassifier /\ [][NextClassifier]_vars

\* the payload of the examined call has a non-empty id
HasId == classified.id \notin {None, ""}

\* the result code of the examined call begins with one of the prefixes
HasPrefixIn(prefixes) == \E p \in prefixes : StartsWith(classified.code, p)

PendingSoonPrefixes == {<<"0","0","0",".","2","0","0">>}
PendingStuckPrefixes ==
    {<<"8","0","0",".","4","0","0",".","5">>,
     <<"1","0","0",".","4","0","0",".","5","0","0">>}
SuccessPrefixes ==
    {<<"0","0","0",".","0","0","0",".">>,
     <<"0","0","0",".","1","0","0",".","1">>,
     <<"0","0","0",".","3">>,
     <<"0","0","0",".","6">>}

\* C18: for a payload with a non-empty id and a result code beginning
\* '000.200', both copies of the classifier return PENDING.
C18_PendingSoonIsPending ==
    (classified.done /\ HasId /\ HasPrefixIn(PendingSoonPrefixes))
    => classified.view = PENDING /\ classified.client = PENDING

C18_Witness ==
    /\ classified.done /\ HasId
    /\ classified.code = <<"0","0","0",".","2","0","0">>
    /\ classified.view = PENDING /\ classified.client = PENDING

\* C19: for a payload with a non-empty id and a result code beginning
\* '800.400.5' or '100.400.500', both copies of the classifier return
\* FAILURE.
C19_PendingStuckIsFailure ==
    (classified.done /\ HasId /\ HasPrefixIn(PendingStuckPrefixes))
    => classified.view = FAILURE /\ classified.client = FAILURE

C19_Witness ==
    /\ classified.done /\ HasId
    /\ classified.code = <<"1","0","0",".","4","0","0",".","5","0","0">>
    /\ classified.view = FAILURE /\ classified.client = FAILURE

\* C20: each copy of the classifier returns SUCCESS exactly for the payloads
\* with a non-empty id whose result code begins '000.000.', '000.100.1',
\* '000.3' or '000.6' and matches neither pending pattern.
C20_SuccessExactlyForSuccessCodes ==
    classified.done
    => LET expected == /\ HasId
                       /\ classified.code # NoneSeq
                       /\ HasPrefixIn(SuccessPrefixes)
                       /\ ~HasPrefixIn(PendingSoonPrefixes)
                       /\ ~HasPrefixIn(PendingStuckPrefixes)
       IN /\ (classified.view = SUCCESS) <=> expected
          /\ (classified.client = SUCCESS) <=> expected

\* a success code and a manual-review code have been classified
C20_Witness ==
    /\ classified.done /\ HasId
    /\ \/ classified.code = <<"0","0","0",".","6","0","0",".","0","0","0">>
          /\ classified.view = SUCCESS
       \/ classified.code = <<"0","0","0",".","4","0","0",".","0","1","0">>
          /\ classified.view = FAILURE

\* the result code of the examined call is a non-empty text
HasCode == classified.code \notin {NoneSeq, <<>>}

\* C21: for a payload with a non-empty id and a non-empty result code that
\* begins neither '000.200' nor one of the success prefixes, both copies of
\* the classifier return FAILURE (manual-review and unknown codes included).
C21_DefaultDeny ==
    (/\ classified.done /\ HasId /\ HasCode
     /\ ~HasPrefixIn(PendingSoonPrefixes)
     /\ ~HasPrefixIn(SuccessPrefixes))
    => classified.view = FAILURE /\ classified.client = FAILURE

\* a manual-review code or the unknown code has been classified FAILURE
C21_Witness ==
    /\ classified.done /\ HasId
    /\ classified.code \in {<<"0","0","0",".","4","0","0",".","1","1","0">>,
                            <<"9","9","9",".","9","9","9",".","9","9","9">>}
    /\ classified.view = FAILURE /\ classified.client = FAILURE

\* C22: when the result code is absent or empty, or the id is absent or
\* empty, both copies of the classifier raise HyperPayBadGatewayResponse
\* and return no status, whatever the other field holds.
C22_MissingFieldIsBadGateway ==
    (classified.done /\ (~HasCode \/ ~HasId))
    => /\ classified.view = HyperPayBadGatewayResponse
       /\ classified.client = HyperPayBadGatewayResponse

\* a success code with an empty id has been refused
C22_Witness ==
    /\ classified.done
    /\ classified.code = <<"0","0","0",".","0","0","0",".","0","0","0">>
    /\ classified.id = ""
    /\ classified.view = HyperPayBadGatewayResponse
    /\ classified.client = HyperPayBadGatewayResponse

\* the rule families, in the order the classifier tries them
PendingChangeable == "pending-changeable"
PendingNotChangeable == "pending-not-changeable"
SuccessFamily == "success"
ManualReview == "manual-review"

\* the families whose pattern the code satisfies, by the client's patterns
\* and by the view's
ClientFamilies(code) ==
    {f \in {PendingChangeable, PendingNotChangeable, SuccessFamily, ManualReview} :
        \/ f = PendingChangeable /\ Client_PENDING_CHANGEABLE_SOON_CODES_REGEX(code)
        \/ f = PendingNotChangeable /\ Client_PENDING_NOT_CHANGEABLE_SOON_CODES_REGEX(code)
        \/ f = SuccessFamily /\ Client_SUCCESS_CODES_REGEX(code)
        \/ f = ManualReview /\ Client_SUCCESS_MANUAL_REVIEW_CODES_REGEX(code)}

ViewFamilies(code) ==
    {f \in {PendingChangeable, PendingNotChangeable, SuccessFamily, ManualReview} :
        \/ f = PendingChangeable /\ PENDING_CHANGEABLE_SOON_CODES_REGEX(code)
        \/ f = PendingNotChangeable /\ PENDING_NOT_CHANGEABLE_SOON_CODES_REGEX(code)
        \/ f = SuccessFamily /\ SUCCESS_CODES_REGEX(code)
        \/ f = ManualReview /\ SUCCESS_MANUAL_REVIEW_CODES_REGEX(code)}

\* the status a family assigns
FamilyOutcome(f) ==
    IF f = PendingChangeable THEN PENDING
    ELSE IF f = SuccessFamily THEN SUCCESS
    ELSE FAILURE

\* C23 as stated: some result code, the examined one or another, satisfies
\* the patterns of two different rule families, so that the order of the
\* rules decides its result.
C23_FamiliesOverlap ==
    \E code \in (ClassifierCodes \cup {classified.code}) \ {NoneSeq} :
        Cardinality(ClientFamilies(code)) >= 2 \/ Cardinality(ViewFamilies(code)) >= 2

\* C23 amended: no result code satisfies the patterns of two rule families;
\* a classified code gets the outcome of the one family it satisfies, and
\* FAILURE when it satisfies none, whatever the order of the rules.
C23_FamiliesDisjoint ==
    (classified.done /\ HasId /\ HasCode)
    => /\ Cardinality(ClientFamilies(classified.code)) <= 1
       /\ Cardinality(ViewFamilies(classified.code)) <= 1
       /\ \A f \in ClientFamilies(classified.code) : classified.client = FamilyOutcome(f)
       /\ \A f \in ViewFamilies(classified.code) : classified.view = FamilyOutcome(f)
       /\ ClientFamilies(classified.code) = {} => classified.client = FAILURE
       /\ ViewFamilies(classified.code) = {} => classified.view = FAILURE

\* a code of each family has been classified by its family alone
C23_Witness ==
    /\ classified.done /\ HasId
    /\ \/ /\ classified.code = <<"0","0","0",".","2","0","0",".","1","0","0">>
          /\ ClientFamilies(classified.code) = {PendingChangeable}
          /\ classified.client = PENDING
       \/ /\ classified.code = <<"8","0","0",".","4","0","0",".","5","0","0">>
          /\ ClientFamilies(classified.code) = {PendingNotChangeable}
          /\ classified.client = FAILURE
       \/ /\ classified.code = <<"0","0","0",".","4","0","0",".","0","1","0">>
          /\ ClientFamilies(classified.code) = {ManualReview}
          /\ classified.client = FAILURE

\* ================================================= the client on its own
MaxCalls == 2
MaxTicks == 2

\* the clock is examined every TickSeconds
TickSeconds == 30

\* timedelta(seconds=int(data.get('expires_in', 0)) - 30): the buffer
TokenBuffer == 30

\* RESULT_CODE_SUCCESSFULLY_CREATED_CHECKOUT = '000.200.100'
RESULT_CODE_SUCCESSFULLY_CREATED_CHECKOUT ==
    <<"0","0","0",".","2","0","0",".","1","0","0">>

\* the 'fully processed' pattern without the reviewed 000.400 codes
SUCCESS_PROCESSED_TRANSACTION_REGEX_WithoutReviewed(s) ==
    \/ StartsWith(s, <<"0","0","0",".","0","0","0",".">>)
    \/ StartsWith(s, <<"0","0","0",".","1","0","0",".","1">>)
    \/ /\ StartsWith(s, <<"0","0","0",".">>)
       /\ Len(s) >= 5
       /\ s[5] \in {"3", "6"}

\* ^(000\.000\.|000\.100\.1|000\.[36]|000\.400\.[1][12]0)
SUCCESS_PROCESSED_TRANSACTION_REGEX(s) ==
    \/ StartsWith(s, <<"0","0","0",".","0","0","0",".">>)
    \/ StartsWith(s, <<"0","0","0",".","1","0","0",".","1">>)
    \/ /\ StartsWith(s, <<"0","0","0",".">>)
       /\ Len(s) >= 5
       /\ s[5] \in {"3", "6"}
    \/ /\ StartsWith(s, <<"0","0","0",".","4","0","0",".","1">>)
       /\ Len(s) >= 11
       /\ s[10] \in {"1", "2"}
       /\ s[11] = "0"

HyperPayException == "HyperPayException"

\* what requests.post / requests.get / response.json() raise
RequestException == "RequestException"
ValueError == "ValueError"

\* the answers of the token endpoint: a transport or HTTP error, a body
\* that does not decode, or a JSON object with or without 'access_token'
\* and 'expires_in' (0 when absent)
TokenResponses ==
    [error : {RequestException, ValueError}, access_token : {None}, expires_in : {0}]
    \cup
    [error : {None}, access_token : {None, ""}, expires_in : {60}]
    \cup
    [error : {None}, access_token : {"abc123"}, expires_in : {0, 60}]
    \cup
    [error : {None}, access_token : {"token_123"}, expires_in : {90}]

\* no request is sent to the token endpoint
NoTokenResponse == [error |-> None, access_token |-> None, expires_in |-> 0]

\* the answers the token endpoint gives to a call that begins now
TokenResponsesNow ==
    IF \/ access_token \in {None, ""}
       \/ token_expiry = <<>>
       \/ token_expiry # <<>> /\ utcnow >= token_expiry[1]
    THEN TokenResponses
    ELSE {NoTokenResponse}

\* _generate_access_token without the check for a missing access token
_generate_access_token_Unchecked(resp, token, expiry, now) ==
    IF resp.error # None
    THEN [access_token |-> token, token_expiry |-> expiry,
          raised |-> HyperPayException,
          message |-> [text |-> "Error generating token: {exc}", code |-> NoneSeq,
                       error |-> resp.error]]
    ELSE [access_token |-> resp.access_token,
          token_expiry |-> <<now + resp.expires_in - TokenBuffer>>,
          raised |-> None,
          message |-> NoMessage]

\* the token and expiry after _generate_access_token, and how it ended
_generate_access_token(resp, token, expiry, now) ==
    IF resp.error # None
    THEN [access_token |-> token, token_expiry |-> expiry,
          raised |-> HyperPayException,
          message |-> [text |-> "Error generating token: {exc}", code |-> NoneSeq,
                       error |-> resp.error]]
    ELSE [access_token |-> resp.access_token,
          token_expiry |-> <<now + resp.expires_in - TokenBuffer>>,
          raised |-> IF resp.access_token \in {None, ""} THEN HyperPayException ELSE None,
          message |-> IF resp.access_token \in {None, ""}
                      THEN [text |-> "Missing access token in HyperPay response.",
                            code |-> NoneSeq, error |-> None]
                      ELSE NoMessage]

\* the condition of _ensure_token with a strict comparison of the clock
TokenNeeded_StrictlyPast(token, expiry, now) ==
    \/ token \in {None, ""}
    \/ expiry = <<>>
    \/ expiry # <<>> /\ now > expiry[1]

\* the condition of _ensure_token
TokenNeeded(token, expiry, now) ==
    \/ token \in {None, ""}
    \/ expiry = <<>>
    \/ expiry # <<>> /\ now >= expiry[1]

\* the token and expiry after _ensure_token, whether it asked for a token,
\* and how it ended
_ensure_token(resp, token, expiry, now) ==
    IF TokenNeeded(token, expiry, now)
    THEN [requested |-> TRUE] @@ _generate_access_token(resp, token, expiry, now)
    ELSE [requested |-> FALSE, access_token |-> token, token_expiry |-> expiry,
          raised |-> None, message |-> NoMessage]

\* the answers of the checkout endpoint: an error, or a JSON object whose
\* result.code is absent (NoneSeq) or a code
CheckoutCodes ==
    {NoneSeq, RESULT_CODE_SUCCESSFULLY_CREATED_CHECKOUT, Code_Pending, Code_Declined}

CheckoutErrors == {None, "HTTPError", ValueError}

\* create_checkout taking any result code for a created checkout
create_checkout_AnyCode(error, code) ==
    IF error # None
    THEN [raised |-> HyperPayException, returned |-> <<>>,
          message |-> [text |-> "Error creating a checkout. {exc}", code |-> NoneSeq,
                       error |-> error]]
    ELSE IF code = NoneSeq
    THEN [raised |-> HyperPayException, returned |-> <<>>,
          message |-> [text |-> "Error creating checkout. Invalid response from HyperPay.",
                       code |-> NoneSeq, error |-> None]]
    ELSE [raised |-> None,
          returned |-> <<[checkout_id |-> "id", nonce_id |-> "ndc",
                          integrity |-> "integrity"]>>,
          message |-> NoMessage]

\* how create_checkout ends on an answer, once the token is there
create_checkout(error, code) ==
    IF error # None
    THEN [raised |-> HyperPayException, returned |-> <<>>,
          message |-> [text |-> "Error creating a checkout. {exc}", code |-> NoneSeq,
                       error |-> error]]
    ELSE IF code = NoneSeq
    THEN [raised |-> HyperPayException, returned |-> <<>>,
          message |-> [text |-> "Error creating checkout. Invalid response from HyperPay.",
                       code |-> NoneSeq, error |-> None]]
    ELSE IF code # RESULT_CODE_SUCCESSFULLY_CREATED_CHECKOUT
    THEN [raised |-> HyperPayException, returned |-> <<>>,
          message |-> [text |-> "Error creating checkout. HyperPay status code: {}",
                       code |-> code, error |-> None]]
    ELSE [raised |-> None,
          returned |-> <<[checkout_id |-> "id", nonce_id |-> "ndc",
                          integrity |-> "integrity"]>>,
          message |-> NoMessage]

\* the answers of the status endpoint
StatusCodes ==
    {NoneSeq, <<>>, Code_Success, Code_Pending, Code_Declined,
     <<"0","0","0",".","3","0","0",".","0","0","0">>,
     <<"0","0","0",".","4","0","0",".","1","1","0">>,
     <<"0","0","0",".","4","0","0",".","1","2","0">>,
     <<"0","0","0",".","4","0","0",".","1","0","0">>}

StatusErrors == {None, "500 Server Error", "No JSON object could be decoded"}

\* how verify_checkout_status ends on an answer, once the token is there
verify_checkout_status(error, code) ==
    IF error # None
    THEN [raised |-> HyperPayException, returned |-> <<>>, logged |-> FALSE,
          message |-> [text |-> "Error verifing checkout status. {exc}",
                       code |-> NoneSeq, error |-> error]]
    ELSE IF code \notin {NoneSeq, <<>>} /\ SUCCESS_PROCESSED_TRANSACTION_REGEX(code)
    THEN [raised |-> None, returned |-> <<[code |-> code]>>, logged |-> TRUE,
          message |-> NoMessage]
    ELSE [raised |-> HyperPayException, returned |-> <<>>, logged |-> TRUE,
          message |-> [text |-> "Unable to verify checkout status.", code |-> NoneSeq,
                       error |-> None]]

\* AuditLog.log(action=RECEIVED_RESPONSE, gateway=self.slug, context={'data': data})
GatewayAudit(code) == [gateway |-> "hyperpay", action |-> RECEIVED_RESPONSE, data |-> code]

WebhookAtRest ==
    /\ cartStatus = [c \in Carts |-> PROCESSING]
    /\ transactions = {PendingTransaction(c) : c \in Carts} \cup {OrphanTransaction}
    /\ invoices = {}
    /\ fulfilled = {}
    /\ auditLog = {}
    /\ pc = [d \in Deliveries |-> "idle"]
    /\ data = [d \in Deliveries |-> NoData]
    /\ transaction_id = [d \in Deliveries |-> NoneSeq]
    /\ transaction = [d \in Deliveries |-> NoTransaction]
    /\ transaction_cart = [d \in Deliveries |-> NoCartInstance]
    /\ transaction_record = [d \in Deliveries |-> NoTransaction]
    /\ exc = [d \in Deliveries |-> None]
    /\ response = [d \in Deliveries |-> 0]

WebhookUnchanged ==
    /\ UNCHANGED <<cartStatus, transactions, invoices, fulfilled, auditLog>>
    /\ UNCHANGED deliveryVars

InitClient ==
    /\ WebhookAtRest
    /\ ClientConstructed
    /\ classified = NotClassified
    /\ validated = NotValidated
    /\ view = NoView

\* the record of a call that begins now
BeginCall(op) ==
    [NoCall EXCEPT !.n = call.n + 1, !.op = op, !.token_before = access_token,
                   !.expiry_before = token_expiry, !.at = utcnow]

\* time passes between calls
ClockTick ==
    /\ utcnow < MaxTicks * TickSeconds
    /\ utcnow' = utcnow + TickSeconds
    /\ UNCHANGED <<access_token, token_expiry, gatewayLog, call>>
    /\ UNCHANGED <<classified, validated, view>>
    /\ WebhookUnchanged

\* HyperPayClient._generate_access_token()
Call_generate_access_token ==
    /\ call.n < MaxCalls
    /\ \E resp \in TokenResponses :
          LET t == _generate_access_token(resp, access_token, token_expiry, utcnow) IN
          /\ access_token' = t.access_token
          /\ token_expiry' = t.token_expiry
          /\ call' = [BeginCall("_generate_access_token") EXCEPT
                         !.requests = {"token"}, !.raised = t.raised,
                         !.message = t.message, !.error = resp.error,
                         !.expires_in = resp.expires_in]
    /\ UNCHANGED <<utcnow, gatewayLog>>
    /\ UNCHANGED <<classified, validated, view>>
    /\ WebhookUnchanged

\* HyperPayClient._ensure_token()
Call_ensure_token ==
    /\ call.n < MaxCalls
    /\ \E resp \in TokenResponsesNow :
          LET t == _ensure_token(resp, access_token, token_expiry, utcnow) IN
          /\ access_token' = t.access_token
          /\ token_expiry' = t.token_expiry
          /\ call' = [BeginCall("_ensure_token") EXCEPT
                         !.requests = IF t.requested THEN {"token"} ELSE {},
                         !.raised = t.raised, !.message = t.message,
                         !.error = IF t.requested THEN resp.error ELSE None,
                         !.expires_in = resp.expires_in]
    /\ UNCHANGED <<utcnow, gatewayLog>>
    /\ UNCHANGED <<classified, validated, view>>
    /\ WebhookUnchanged

\* HyperPayClient.create_checkout(payload)
Call_create_checkout ==
    /\ call.n < MaxCalls
    /\ \E resp \in TokenResponsesNow, error \in CheckoutErrors, code \in CheckoutCodes :
          LET t == _ensure_token(resp, access_token, token_expiry, utcnow)
              r == create_checkout(error, code)
          IN
          /\ error # None => code = NoneSeq
          /\ access_token' = t.access_token
          /\ token_expiry' = t.token_expiry
          /\ call' =
                IF t.raised # None
                THEN [BeginCall("create_checkout") EXCEPT
                         !.requests = {"token"}, !.raised = t.raised,
                         !.message = t.message, !.error = resp.error,
                         !.expires_in = resp.expires_in]
                ELSE [BeginCall("create_checkout") EXCEPT
                         !.requests = IF t.requested THEN {"token", "checkout"}
                                      ELSE {"checkout"},
                         !.raised = r.raised, !.message = r.message,
                         !.returned = r.returned, !.code = code, !.error = error,
                         !.expires_in = resp.expires_in]
    /\ UNCHANGED <<utcnow, gatewayLog>>
    /\ UNCHANGED <<classified, validated, view>>
    /\ WebhookUnchanged

\* HyperPayClient.verify_checkout_status(params)
Call_verify_checkout_status ==
    /\ call.n < MaxCalls
    /\ \E resp \in TokenResponsesNow, error \in StatusErrors, code \in StatusCodes :
          LET t == _ensure_token(resp, access_token, token_expiry, utcnow)
              r == verify_checkout_status(error, code)
          IN
          /\ error # None => code = NoneSeq
          /\ access_token' = t.access_token
          /\ token_expiry' = t.token_expiry
          /\ call' =
                IF t.raised # None
                THEN [BeginCall("verify_checkout_status") EXCEPT
                         !.requests = {"token"}, !.raised = t.raised,
                         !.message = t.message, !.error = resp.error,
                         !.expires_in = resp.expires_in]
                ELSE [BeginCall("verify_checkout_status") EXCEPT
                         !.requests = IF t.requested THEN {"token", "status"}
                                      ELSE {"status"},
                         !.raised = r.raised, !.message = r.message,
                         !.returned = r.returned, !.code = code, !.error = error,
                         !.expires_in = resp.expires_in]
          /\ gatewayLog' = IF t.raised = None /\ r.logged
                           THEN Append(gatewayLog, GatewayAudit(code))
                           ELSE gatewayLog
    /\ UNCHANGED utcnow
    /\ UNCHANGED <<classified, validated, view>>
    /\ WebhookUnchanged

NextClient ==
    \/ ClockTick
    \/ Call_generate_access_token
    \/ Call_ensure_token
    \/ Call_create_checkout
    \/ Call_verify_checkout_status

SpecClient == InitClient /\ [][NextClient]_vars

\* the last call went through _ensure_token
WentThroughEnsureToken ==
    call.op \in {"_ensure_token", "create_checkout", "verify_checkout_status"}

\* the last call sent a request to the token endpoint
TokenRequested == "token" \in call.requests

\* C24: _ensure_token asks for a new token exactly when, as the call begins,
\* the cached token is absent, the cached expiry is absent, or the clock is
\* at or past the cached expiry; the expiry a successful request caches is
\* the time of the request plus expires_in minus 30 seconds.
C24_TokenRequestedExactlyWhenStale ==
    /\ WentThroughEnsureToken
       => (TokenRequested
           <=> \/ call.token_before \in {None, ""}
               \/ call.expiry_before = <<>>
               \/ call.expiry_before # <<>> /\ call.at >= call.expiry_before[1])
    /\ (TokenRequested /\ call.error = None)
       => token_expiry = <<call.at + call.expires_in - 30>>

\* a call at the very second of the cached expiry has asked for a token
C24_Witness ==
    /\ call.op = "_ensure_token"
    /\ call.token_before = "abc123"
    /\ call.expiry_before = <<call.at>>
    /\ TokenRequested

\* C25: after a call that asked for a token, successful or failed, the
\* token and the expiry are both the ones that call received, or both what
\* they were before it.
C25_NoHalfSetToken ==
    TokenRequested
    => \/ /\ access_token \notin {None, ""}
          /\ token_expiry = <<call.at + call.expires_in - 30>>
       \/ /\ access_token = call.token_before
          /\ token_expiry = call.expiry_before

CREATED == <<"0","0","0",".","2","0","0",".","1","0","0">>

ProcessedPrefixes ==
    SuccessPrefixes \cup {<<"0","0","0",".","4","0","0",".","1","1","0">>,
                          <<"0","0","0",".","4","0","0",".","1","2","0">>}

\* the status endpoint has answered the last call with a decodable body
StatusAnswered ==
    call.op = "verify_checkout_status" /\ "status" \in call.requests /\ call.error = None

\* C27: verify_checkout_status returns the response data exactly when the
\* answer carries a 'fully processed' result code and raises
\* HyperPayException otherwise; every code the classifier maps to SUCCESS
\* is accepted.
C27_StatusAcceptedExactlyWhenProcessed ==
    call.op = "verify_checkout_status"
    => /\ call.returned # <<>>
          <=> /\ StatusAnswered
              /\ \E p \in ProcessedPrefixes : StartsWith(call.code, p)
       /\ call.returned # <<>> => call.raised = None /\ call.returned[1].code = call.code
       /\ call.returned = <<>> => call.raised = HyperPayException
       /\ (StatusAnswered /\ verify_webhook_callback_status(call.code, VendorId) = SUCCESS)
          => call.returned # <<>>

\* a reviewed code the classifier refuses has been accepted
C27_Witness ==
    /\ StatusAnswered
    /\ call.code = <<"0","0","0",".","4","0","0",".","1","2","0">>
    /\ call.returned # <<>>
    /\ verify_webhook_callback_status(call.code, VendorId) = FAILURE

\* C28: every call that sends a request to the processor, token
\* acquisition, create_checkout or verify_checkout_status, successful or
\* failed, appends a row to the audit log before it returns or raises.
C28_EveryCallAudited ==
    [][(call'.n = call.n + 1 /\ call'.requests # {})
       => Len(gatewayLog') > Len(gatewayLog)]_vars

\* ============================================== the validator on its own
\* the keys of the responses examined: all mandatory fields, or some missing
ValidatorKeySets ==
    LET all == {MANDATORY_FIELDS[i] : i \in 1..Len(MANDATORY_FIELDS)} IN
    {all, all \ {"id"}, all \ {"amount"}, all \ {"result"}, all \ {"amount", "currency"}}

\* the responses examined: every combination of keys, amount, currency,
\* result.code, card object and number of items
ValidatorResponses ==
    [keys : ValidatorKeySets,
     code : {Code_Success, NoneSeq, <<>>, NotAStr},
     id : {VendorId},
     ref : {CartRef(1)},
     amount : {"1000.00", "1000", "1000.01", "999.99", "abc"},
     currency : {valid_currency, "USD"},
     card : {{}, required_card_fields, {"bin"}, required_card_fields \ {"holder"}},
     items : {0, 1, 2}]

\* cart.items.count() of the orders examined
ValidatorItemCounts == {1, 2}

InitValidator ==
    /\ WebhookAtRest
    /\ ClientConstructed
    /\ classified = NotClassified
    /\ view = NoView
    /\ \E r \in ValidatorResponses, n \in ValidatorItemCounts :
          validated = [NotValidated EXCEPT !.response = r, !.items_count = n]

\* one call of verify_success_response_with_cart(response, cart)
Validate ==
    /\ ~validated.done
    /\ validated' =
          [validated EXCEPT
              !.result = verify_success_response_with_cart(
                             validated.response, CartTotal, validated.items_count),
              !.names = verify_success_response_with_cart_names(
                             validated.response, CartTotal, validated.items_count),
              !.done = TRUE]
    /\ UNCHANGED <<classified, view>>
    /\ UNCHANGED clientVars
    /\ WebhookUnchanged

NextValidator == Validate

SpecValidator == InitValidator /\ [][NextValidator]_vars

\* the amount texts whose value is the order total, 1000.00
AmountsEqualToTotal == {"1000.00", "1000"}

\* the checks of the validator, by number, violated by the examined response
Violations ==
    LET r == validated.response IN
    {k \in 1..6 :
        \/ k = 1 /\ \E i \in 1..Len(MANDATORY_FIELDS) : MANDATORY_FIELDS[i] \notin r.keys
        \/ k = 2 /\ r.amount \notin AmountsEqualToTotal
        \/ k = 3 /\ r.currency # "SAR"
        \/ k = 4 /\ r.code \in {NoneSeq, <<>>, NotAStr}
        \/ k = 5 /\ r.card # {}
                 /\ r.card # {"bin", "last4Digits", "holder", "expiryMonth", "expiryYear"}
        \/ k = 6 /\ r.items # validated.items_count}

\* the error each check raises
ViolationError(k) ==
    CASE k = 1 -> "Missing field in response"
      [] k = 2 -> "Error comparing cart total"
      [] k = 3 -> "Invalid currency"
      [] k = 4 -> "Missing or invalid result.code"
      [] k = 5 -> "Missing card field"
      [] k = 6 -> "Mismatch in number of cart items"

\* C29: when a response violates several checks, the HyperPayException
\* raised is the one of the lowest-numbered violated check, in the order
\* mandatory field, amount, currency, result.code, card, item count.
C29_FirstViolationReported ==
    (validated.done /\ Violations # {})
    => \E k \in Violations :
          /\ \A other \in Violations : k <= other
          /\ validated.result = ViolationError(k)

\* a response with a wrong amount, a wrong currency and a partial card has
\* been refused for its amount
C29_Witness ==
    /\ validated.done
    /\ {2, 3, 5} \subseteq Violations
    /\ 1 \notin Violations
    /\ validated.result = "Error comparing cart total"

\* C30: the validator passes exactly when no check is violated; an amount
\* of any other value than the order total, 0.01 more for one, is refused
\* with an error naming the order total and the amount received.
C30_PassesExactlyWhenAllHold ==
    validated.done
    => /\ validated.result = OK <=> Violations = {}
       /\ (1 \notin Violations /\ 2 \in Violations)
          => /\ validated.result = "Error comparing cart total"
             /\ validated.names.total = <<CartTotal>>
             /\ validated.names.amount = validated.response.amount

\* an amount 0.01 above the total, all else in order, has been refused
C30_Witness ==
    /\ validated.done
    /\ validated.response.amount = "1000.01"
    /\ Violations = {2}
    /\ validated.result = "Error comparing cart total"
    /\ validated.names = [total |-> <<CartTotal>>, amount |-> "1000.01"]

\* C35: the merchant reference of a SUCCESS delivery, split on '-', has
\* exactly the expected number of segments and its last segment is the
\* order the transaction found belongs to; a reference with another number
\* of segments is refused as invalid, without an escaping exception and
\* without a payment.
C35_ReferenceRoundTrip ==
    \A d \in Deliveries :
        (/\ pc[d] = "done" /\ IsSuccessDelivery(d)
         /\ "merchant_transaction_id" \in data[d].keys)
        => IF Len(data[d].ref) = ExpectedSegments
           THEN (transaction[d] # NoTransaction /\ transaction[d].cart # NoCart)
                => ToString(transaction[d].cart) = data[d].ref[Len(data[d].ref)]
           ELSE /\ response[d] # 500
                /\ ~Won(d)
                /\ \E a \in auditLog : a.by = d /\ a.action = RESPONSE_INVALID_CART

\* C36: on every payload the two copies of the classifier both raise
\* HyperPayBadGatewayResponse or both return the status of the same name.
C36_ClassifierCopiesAgree ==
    classified.done => classified.view = classified.client

\* both copies have returned SUCCESS for a success code, and both have
\* refused a payload without an id
C36_Witness ==
    /\ classified.done
    /\ \/ /\ HasId
          /\ classified.code = <<"0","0","0",".","1","0","0",".","1","1","0">>
          /\ classified.view = SUCCESS /\ classified.client = SUCCESS
       \/ /\ classified.id = None
          /\ classified.code = <<"0","0","0",".","2","0","0">>
          /\ classified.view = HyperPayBadGatewayResponse
          /\ classified.client = HyperPayBadGatewayResponse

\* C37: no result code that verify_checkout_status accepts as a processed
\* transaction is classified FAILURE by the webhook classifier.
C37_PathsAgreeOnPaid ==
    (StatusAnswered /\ call.returned # <<>>)
    => /\ verify_webhook_callback_status(call.code, VendorId) # FAILURE
       /\ _verify_status(call.code, VendorId) # FAILURE

\* the order of the payment delivery d handles
CartOf(d) == transaction_cart[d].id

\* C38: an order a delivery has set to PAID has a recorded Transaction;
\* every Invoice refers to an existing Transaction; a delivery is at or past
\* invoice creation or fulfillment, and an Invoice or a fulfillment exists,
\* only for a delivery whose payment-handling step committed.
C38_PaidHasTransactionInvoiceHasPayment ==
    /\ \A d \in Deliveries :
          Won(d) => /\ cartStatus[CartOf(d)] = PAID
                    /\ \E t \in transactions :
                          /\ t.pk = transaction_record[d].pk
                          /\ t.cart = CartOf(d)
                          /\ t.status = "Success"
    /\ \A i \in invoices :
          /\ \E t \in transactions : t.pk = i.related_transaction
          /\ \E d \in Deliveries : Won(d) /\ CartOf(d) = i.cart
    /\ \A d \in Deliveries : pc[d] \in {"invoice", "fulfill"} => Won(d)
    /\ \A c \in fulfilled : \E d \in Deliveries : Won(d) /\ CartOf(d) = c

\* a delivery has paid, invoiced and fulfilled its order
C38_Witness ==
    \E d \in Deliveries :
        /\ pc[d] = "done" /\ Won(d)
        /\ InvoiceOf(d) # {}
        /\ CartOf(d) \in fulfilled
        /\ cartStatus[CartOf(d)] = PAID

\* C39: a delivery attempts fulfillment only with its invoice created, and
\* its CART_FULFILLED entry exists only with its payment recorded, its
\* invoice created and its order fulfilled; after a failed invoice creation
\* it fulfills nothing and records no CART_FULFILLED entry.
C39_StepsInOrder ==
    \A d \in Deliveries :
        /\ pc[d] = "fulfill" => Won(d) /\ InvoiceOf(d) # {}
        /\ pc[d] = "invoice" => Won(d) /\ InvoiceOf(d) = {}
        /\ (\E c \in Carts : Audited(CART_FULFILLED, c, d))
           => /\ pc[d] = "done" /\ Won(d)
              /\ InvoiceOf(d) # {}
              /\ CartOf(d) \in fulfilled
              /\ Audited(CART_FULFILLED, CartOf(d), d)
        /\ (pc[d] = "done" /\ Won(d) /\ InvoiceOf(d) = {})
           => ~\E c \in Carts : Audited(CART_FULFILLED, c, d)

\* a delivery whose invoice creation failed has ended with its order paid,
\* not fulfilled, and without a CART_FULFILLED entry
C39_Witness ==
    \E d \in Deliveries :
        /\ pc[d] = "done" /\ Won(d)
        /\ exc[d] = "Exception"
        /\ InvoiceOf(d) = {}
        /\ CartOf(d) \notin fulfilled
        /\ ~Audited(CART_FULFILLED, CartOf(d), d)

\* the last call was create_checkout or verify_checkout_status
IsApiCall == call.op \in {"create_checkout", "verify_checkout_status"}

\* the last call sent its checkout or status request
ApiRequestSent == call.requests \cap {"checkout", "status"} # {}

\* C40: create_checkout and verify_checkout_status send their request only
\* with a token that was there and unexpired or that the call just
\* acquired; a call whose token acquisition failed raises HyperPayException
\* with no checkout or status request sent, and leaves the client in a
\* state where the next call asks for a token again.
C40_NoRequestWithoutToken ==
    IsApiCall
    => /\ ApiRequestSent
          => /\ access_token \notin {None, ""}
             /\ token_expiry # <<>>
             /\ TokenRequested \/ call.at < token_expiry[1]
       /\ ~ApiRequestSent
          => /\ TokenRequested
             /\ call.raised = HyperPayException
             /\ \/ access_token \in {None, ""}
                \/ token_expiry = <<>>
                \/ token_expiry # <<>> /\ utcnow >= token_expiry[1]

\* after a failed token acquisition the next call has asked for a token
\* again and failed again, with no checkout request sent
C40_Witness ==
    /\ call.op = "create_checkout"
    /\ call.n = 2
    /\ call.token_before = None
    /\ call.requests = {"token"}
    /\ call.raised = HyperPayException
    /\ access_token = None

\* ===================================== the return and the status view
MaxRequests == 2

\* HyperPayReturnView.MAX_ATTEMPTS, WAIT_TIME and the two templates
MAX_ATTEMPTS == 24
WAIT_TIME == 5000
template_name == "zeitlabs_payments/wait_feedback.html"
payment_error == "zeitlabs_payments/payment_error.html"

\* the Transaction of order c once handle_payment recorded its payment, and
\* the Invoice create_invoice made for it
PaidTransaction(c) == [PendingTransaction(c) EXCEPT !.status = "Success"]
InvoiceFor(c) ==
    [pk |-> c, cart |-> c, related_transaction |-> PaidTransaction(c).pk]

DeliveriesAtRest ==
    /\ pc = [d \in Deliveries |-> "idle"]
    /\ data = [d \in Deliveries |-> NoData]
    /\ transaction_id = [d \in Deliveries |-> NoneSeq]
    /\ transaction = [d \in Deliveries |-> NoTransaction]
    /\ transaction_cart = [d \in Deliveries |-> NoCartInstance]
    /\ transaction_record = [d \in Deliveries |-> NoTransaction]
    /\ exc = [d \in Deliveries |-> None]
    /\ response = [d \in Deliveries |-> 0]

\* the tables as checkouts and webhook deliveries leave them: every order in
\* some status with its Pending transaction, or PAID with its payment
\* recorded, with or without its invoice
InitViews ==
    /\ cartStatus \in [Carts -> CartStatuses]
    /\ \E paid \in SUBSET {c \in Carts : cartStatus[c] = PAID} :
       \E invoiced \in SUBSET paid :
          /\ transactions =
                {IF c \in paid THEN PaidTransaction(c) ELSE PendingTransaction(c) :
                    c \in Carts} \cup {OrphanTransaction}
          /\ invoices = {InvoiceFor(c) : c \in invoiced}
    /\ fulfilled = {}
    /\ auditLog = {}
    /\ DeliveriesAtRest
    /\ ClientConstructed
    /\ classified = NotClassified
    /\ validated = NotValidated
    /\ view = NoView

\* request.GET.get('id')
CheckoutIds == {None, "1234"}

\* what the status endpoint answers the return view's verify_checkout_status
ReturnErrors == {None, "500 Server Error"}
ReturnCodes == {NoneSeq, Code_Success, Code_Declined}

\* data.get('merchant_transaction_id') of the answer
ReturnRefs == {NoneSeq, NoDashRef} \cup {CartRef(c) : c \in Carts}

\* the request a view begins to answer
BeginView(name) == [NoView EXCEPT !.n = view.n + 1, !.name = name]

\* the return view recording the order of the reference as paid
ReturnView_get_MarksPaid ==
    /\ view.n < MaxRequests
    /\ \E checkout_id \in CheckoutIds, error \in ReturnErrors, code \in ReturnCodes,
          ref \in ReturnRefs :
          LET r == verify_checkout_status(error, code)
              req == [BeginView("return") EXCEPT !.checkout_id = checkout_id,
                                                 !.merchant_reference = ref]
          IN
          /\ r.raised # None => ref = NoneSeq
          /\ error # None => code = NoneSeq
          /\ checkout_id = None => r.raised # None
          /\ gatewayLog' = IF r.logged THEN Append(gatewayLog, GatewayAudit(code))
                           ELSE gatewayLog
          /\ IF r.raised # None
             THEN /\ view' = [req EXCEPT !.page = payment_error, !.status = 200]
                  /\ UNCHANGED <<auditLog, cartStatus>>
             ELSE /\ auditLog' = auditLog
                        \cup {Audit(RECEIVED_RESPONSE, NoCart, ReturnRequest)}
                  /\ cartStatus' = [c \in Carts |->
                          IF ref = CartRef(c) THEN PAID ELSE cartStatus[c]]
                  /\ view' =
                        IF ref = NoneSeq
                        THEN [req EXCEPT !.status = 500, !.exc = "AttributeError"]
                        ELSE IF Len(ref) < 2
                        THEN [req EXCEPT !.status = 500, !.exc = "IndexError"]
                        ELSE [req EXCEPT
                                !.page = template_name, !.status = 200,
                                !.context =
                                    [ecommerce_transaction_id |-> SplitAfterFirstDash(ref),
                                     ecommerce_max_attempts |-> MAX_ATTEMPTS,
                                     ecommerce_wait_time |-> WAIT_TIME]]
    /\ UNCHANGED <<transactions, invoices, fulfilled>>
    /\ UNCHANGED deliveryVars
    /\ UNCHANGED <<classified, validated, access_token, token_expiry, utcnow, call>>

\* HyperPayReturnView.get.  The processor and its client are built anew for
\* the request; a failed token acquisition is one more HyperPayException of
\* verify_checkout_status.
ReturnView_get ==
    /\ view.n < MaxRequests
    /\ \E checkout_id \in CheckoutIds, error \in ReturnErrors, code \in ReturnCodes,
          ref \in ReturnRefs :
          LET r == verify_checkout_status(error, code)
              req == [BeginView("return") EXCEPT !.checkout_id = checkout_id,
                                                 !.merchant_reference = ref]
          IN
          /\ r.raised # None => ref = NoneSeq
          /\ error # None => code = NoneSeq
          /\ checkout_id = None => r.raised # None
          /\ gatewayLog' = IF r.logged THEN Append(gatewayLog, GatewayAudit(code))
                           ELSE gatewayLog
          /\ IF r.raised # None
             THEN /\ view' = [req EXCEPT !.page = payment_error, !.status = 200]
                  /\ UNCHANGED auditLog
             ELSE /\ auditLog' = auditLog
                        \cup {Audit(RECEIVED_RESPONSE, NoCart, ReturnRequest)}
                  /\ view' =
                        IF ref = NoneSeq
                        THEN [req EXCEPT !.status = 500, !.exc = "AttributeError"]
                        ELSE IF Len(ref) < 2
                        THEN [req EXCEPT !.status = 500, !.exc = "IndexError"]
                        ELSE [req EXCEPT
                                !.page = template_name, !.status = 200,
                                !.context =
                                    [ecommerce_transaction_id |-> SplitAfterFirstDash(ref),
                                     ecommerce_max_attempts |-> MAX_ATTEMPTS,
                                     ecommerce_wait_time |-> WAIT_TIME]]
    /\ UNCHANGED <<cartStatus, transactions, invoices, fulfilled>>
    /\ UNCHANGED deliveryVars
    /\ UNCHANGED <<classified, validated, access_token, token_expiry, utcnow, call>>

\* request.GET.get('merchant_reference')
StatusReferences == {NoneSeq, UnknownRef} \cup {CartRef(c) : c \in Carts}

\* {PAID: 200, PROCESSING: 204}.get(transaction.cart.status, 404)
status_code(cart_status) ==
    IF cart_status = PAID THEN 200
    ELSE IF cart_status = PROCESSING THEN 204
    ELSE 404

\* Invoice.objects.filter(cart=..., status=PAID,
\*     related_transaction__gateway_transaction_id=transaction_id)
PaidInvoices(cart, gtid) ==
    {i \in invoices :
        /\ i.cart = cart
        /\ \E t \in transactions :
              t.pk = i.related_transaction /\ t.gateway_transaction_id = gtid}

\* HyperPayStatusView.get
StatusView_get ==
    /\ view.n < MaxRequests
    /\ \E tid \in StatusQueryIds, mref \in StatusReferences :
          LET found == {t \in transactions : t.gateway_transaction_id = tid}
              req == [BeginView("status") EXCEPT !.transaction_id = tid,
                                                 !.merchant_reference = mref]
              invalid == Audit(RESPONSE_INVALID_CART, NoCart, StatusRequest)
          IN
          IF tid = NoneSeq \/ tid = <<>>
          THEN /\ view' = [req EXCEPT !.status = 400,
                              !.body = [NoBody EXCEPT !.error = "transaction_id is required"]]
               /\ UNCHANGED auditLog
          ELSE IF found = {}
          THEN /\ view' = [req EXCEPT !.status = 404,
                              !.body = [NoBody EXCEPT !.error = "transaction does not exist"]]
               /\ auditLog' = auditLog \cup {invalid}
          ELSE IF Cardinality(found) > 1
          THEN /\ view' = [req EXCEPT !.status = 500,
                              !.exc = "Transaction.MultipleObjectsReturned"]
               /\ UNCHANGED auditLog
          ELSE LET t == CHOOSE x \in found : TRUE
                   paid_invoices == PaidInvoices(t.cart, tid)
               IN
               IF t.cart = NoCart
               THEN /\ view' = [req EXCEPT !.status = 404,
                                   !.body = [NoBody EXCEPT !.error = "cart could not be found"]]
                    /\ auditLog' = auditLog \cup {invalid}
               ELSE /\ UNCHANGED auditLog
                    /\ view' =
                          IF status_code(cartStatus[t.cart]) = 200
                          THEN IF paid_invoices # {}
                               THEN [req EXCEPT
                                       !.status = 200,
                                       !.body = [NoBody EXCEPT !.invoice =
                                                   (CHOOSE i \in paid_invoices : TRUE).pk]]
                               ELSE [req EXCEPT
                                       !.status = 204,
                                       !.body = [NoBody EXCEPT !.error =
                                                   "unable to retrieve invoice"]]
                          ELSE [req EXCEPT
                                  !.status = status_code(cartStatus[t.cart]),
                                  !.body = [NoBody EXCEPT !.error = "cart is in status"]]
    /\ UNCHANGED <<cartStatus, transactions, invoices, fulfilled>>
    /\ UNCHANGED deliveryVars
    /\ UNCHANGED <<classified, validated>>
    /\ UNCHANGED clientVars

NextViews ==
    \/ ReturnView_get
    \/ StatusView_get

SpecViews == InitViews /\ [][NextViews]_vars

\* the merchant reference the last return request got back can be split
UsableReference == view.merchant_reference # NoneSeq /\ Len(view.merchant_reference) >= 2

\* C31: a return request always ends with the waiting page, carrying 24
\* attempts and 5000 ms, or with the error page, and no exception leaves
\* the view; a missing checkout id and an answer without a usable merchant
\* reference end with the error page.
C31_ReturnAlwaysRenders ==
    view.name = "return"
    => /\ view.exc = None
       /\ view.page \in {template_name, payment_error}
       /\ view.page = template_name
          => /\ view.context.ecommerce_max_attempts = 24
             /\ view.context.ecommerce_wait_time = 5000
       /\ (view.checkout_id = None \/ ~UsableReference) => view.page = payment_error

\* the last step is a return request
ReturnRequestStep == view'.n = view.n + 1 /\ view'.name = "return"

\* C32: a return request, whatever its outcome, leaves the status of every
\* order and the Transaction and Invoice tables as they were.
C32_ReturnChangesNoBusinessState ==
    [][ReturnRequestStep => UNCHANGED <<cartStatus, transactions, invoices, fulfilled>>]_vars

\* a return request for an order still PROCESSING has shown the waiting
\* page and written its audit entry, and the order is still PROCESSING
C32_Witness ==
    /\ view.name = "return"
    /\ view.page = template_name
    /\ \E c \in Carts : view.merchant_reference = CartRef(c) /\ cartStatus[c] = PROCESSING
    /\ Audit(RECEIVED_RESPONSE, NoCart, ReturnRequest) \in auditLog

\* the orders the last status request resolves to: the order of the
\* transaction, named by the merchant reference too
ResolvedOrders ==
    {c \in Carts :
        /\ view.merchant_reference = CartRef(c)
        /\ \E t \in transactions :
              t.gateway_transaction_id = view.transaction_id /\ t.cart = c}

\* C33: a status request with both parameters is answered 200 with the
\* invoice when the order is PAID and has a paid invoice for the
\* transaction, 202 when it is PAID without a visible invoice or still
\* PROCESSING, and 404 when nothing resolves or the order is in any other
\* status.
C33_StatusAnswers ==
    (/\ view.name = "status"
     /\ view.transaction_id # NoneSeq
     /\ view.merchant_reference # NoneSeq)
    => IF ResolvedOrders = {}
       THEN view.status = 404
       ELSE \A c \in ResolvedOrders :
               IF cartStatus[c] = PAID /\ PaidInvoices(c, view.transaction_id) # {}
               THEN /\ view.status = 200
                    /\ \E i \in PaidInvoices(c, view.transaction_id) :
                          view.body.invoice = i.pk
               ELSE IF cartStatus[c] \in {PAID, PROCESSING}
               THEN view.status = 202
               ELSE view.status = 404

\* C34: a status request without transaction_id or without
\* merchant_reference is answered 400.
C34_MissingParameterIsBadRequest ==
    (/\ view.name = "status"
     /\ view.transaction_id = NoneSeq \/ view.merchant_reference = NoneSeq)
    => view.status = 400

====
